---- MODULE Spec2Model ----
(***************************************************************************)
(* Model of Conn23Manager, the RFC 23 (DID exchange) connection manager of *)
(* aries_cloudagent/protocols/didexchange/v1_0/manager.py.                 *)
(*                                                                         *)
(* Two agents, each with its own wallet, record store and cache, run the   *)
(* manager's operations.  An operation is a task: it is started with its   *)
(* arguments, advances one storage / wallet / responder await at a time,   *)
(* and returns.  The variable `run' names the operations the callers       *)
(* invoke and those they let run at the same time; every other operation   *)
(* runs alone.                                                             *)
(***************************************************************************)
EXTENDS Naturals, Integers, Sequences, FiniteSets, Bags, TLC

VARIABLES
    settings,   \* context.settings, the same for both agents
    wallet,     \* per agent: counters of local DIDs, signing keys, message ids; public DID
    conns,      \* per agent: the persisted Conn23Record rows, indexed by connection_id
    attReq,     \* per agent: the request attached to each connection record
    attInv,     \* per agent: the invitation attached to each connection record
    didDocs,    \* per agent: the "did_doc" storage records, indexed by record id
    didKeys,    \* per agent: the "did_key" storage records (a set of rows with ids)
    cache,      \* per agent: the populated cache entries of find_inbound_connection
    targetCache, \* per agent: the populated cache entries of get_connection_targets
    locks,      \* the cache keys currently acquired
    net,        \* every message an agent has produced so far
    sent,       \* bag of the messages dispatched through the responder
    resolves,   \* bag of resolver invocations in the current run of find_inbound_connection calls
    fanout,     \* bag of the receive_request calls addressed to a MULTI invitation's key
    tasks,      \* the operations in flight
    run         \* the callers of this run: the operations they invoke (scope), the pairs
                \* they invoke beside one another (overlap), the records a store holds
                \* (capacity), whether the peer sends usurping messages (usurper)

vars == << settings, wallet, conns, attReq, attInv, didDocs, didKeys, cache, targetCache,
           locks, net, sent, resolves, fanout, tasks, run >>

---------------------------------------------------------------------------
(* Bounds of the model *)

MaxInFlight == 2
MaxInvites == 1
MaxConns == 3
MaxHandshakeConns == 2
MaxMsgs == 1
MaxResolves == 2
MaxCached == 1
MaxRoutes == 2

---------------------------------------------------------------------------
(* Values *)

Agents == {"alice", "bob"}
Inviters == {"alice"}
Invitees == {"bob"}
TaskIds == 1 .. MaxInFlight

Peer(a) == IF a = "alice" THEN "bob" ELSE "alice"
Base(a) == IF a = "alice" THEN 10 ELSE 20
PublicDid(a) == Base(a)
LocalDid(a, n) == Base(a) + n
VK(d) == 100 + d
SigningKey(a, n) == 200 + Base(a) + n
ThreadId(a, n) == Base(a) + n
Label(a) == Base(a)
Endpoint(a) == Base(a)
\* a DID that is neither agent's
ForeignDid == VK(0) - 1

\* wallet.util.naked_to_did_key: the did:key form of a verkey, an injective re-encoding
naked_to_did_key(k) == 1000 + k

NoDoc == [did |-> 0, pubkey |-> << >>, service |-> << >>]
NoJson == [id |-> 0, publicKey |-> << >>, service |-> << >>]
NoAtt == [has |-> FALSE, signed |-> NoJson, ok |-> FALSE, signer |-> 0]
NoMsg == [kind |-> "none", from |-> "none", id |-> 0, thid |-> 0, pthid |-> << >>,
          did |-> 0, label |-> 0, att |-> NoAtt, dids |-> << >>, blocks |-> << >>]
NoReceipt == [sender_verkey |-> 0, recipient_verkey |-> 0, sender_did |-> 0,
              recipient_did |-> 0, recipient_did_public |-> FALSE]

\* Conn23Record(...) with the constructor's defaults
NewConn == [id |-> 0, my_did |-> 0, their_did |-> 0, invitation_key |-> 0,
            their_label |-> 0, their_role |-> "none", state |-> "init",
            accept |-> "manual", invitation_mode |-> "once", request_id |-> 0,
            inbound_connection_id |-> 0, routing_state |-> "none"]

NoSd == [rec |-> 0, todo |-> << >>, i |-> 0]
NoWallet == [nDid |-> 0, nKey |-> 0, nMsg |-> 0, public |-> FALSE]
NoPre == [conns |-> << >>, didDocs |-> << >>, didKeys |-> {}, attReq |-> << >>,
          sent |-> EmptyBag, wallet |-> NoWallet]
NoArgs == [auto_accept |-> "none", public |-> FALSE, multi_use |-> FALSE,
           invitation |-> NoMsg, auto_complete |-> FALSE]
IdleTask == [op |-> "idle", pc |-> "idle", a |-> "none", msg |-> NoMsg, rcpt |-> NoReceipt,
             conn |-> NewConn, found |-> FALSE, key |-> 0, held |-> FALSE, out |-> NoMsg,
             doc |-> NoDoc, sd |-> NoSd, res |-> "", thid |-> 0, pre |-> NoPre,
             args |-> NoArgs, targets |-> << >>]

StateRank(s) ==
    CASE s = "init" -> 0
      [] s = "invitation" -> 1
      [] s = "request" -> 2
      [] s = "response" -> 3
      [] s = "completed" -> 4
      [] OTHER -> 5

---------------------------------------------------------------------------
(* Wallet *)

LocalDids(a) ==
    { LocalDid(a, n) : n \in 1 .. wallet[a].nDid }
        \cup (IF wallet[a].public THEN {PublicDid(a)} ELSE {})

\* wallet.create_local_did(): the DID the next call returns
NextLocalDid(a) == LocalDid(a, wallet[a].nDid + 1)
WalletAfterCreateDid(a) == [wallet EXCEPT ![a].nDid = @ + 1]

\* wallet.get_local_did_for_verkey(vk): the local DID owning vk, 0 for WalletNotFoundError
get_local_did_for_verkey(a, vk) ==
    IF \E d \in LocalDids(a) : VK(d) = vk
    THEN CHOOSE d \in LocalDids(a) : VK(d) = vk
    ELSE 0

---------------------------------------------------------------------------
(* Conn23Record persistence *)

SavedId(a, rec) == IF rec.id = 0 THEN Len(conns[a]) + 1 ELSE rec.id
Saved(a, rec) == [rec EXCEPT !.id = SavedId(a, rec)]

\* Conn23Record.save: a new record is added under a fresh connection_id, an existing
\* one is rewritten whole from the in-memory copy
ConnsAfterSave(a, rec) ==
    IF rec.id = 0
    THEN [conns EXCEPT ![a] = Append(@, Saved(a, rec))]
    ELSE [conns EXCEPT ![a][rec.id] = rec]

AttReqAfterSave(a, rec) ==
    IF rec.id = 0 THEN [attReq EXCEPT ![a] = Append(@, NoMsg)] ELSE attReq

\* a new record has no invitation attached until attach_invitation
AttInvAfterSave(a, rec) ==
    IF rec.id = 0 THEN [attInv EXCEPT ![a] = Append(@, NoMsg)] ELSE attInv

\* connection.save of a new record, then connection.attach_invitation(invitation)
AttInvAfterAttach(a, rec, invitation) ==
    [AttInvAfterSave(a, rec) EXCEPT ![a][SavedId(a, rec)] = invitation]

Flip(role) == IF role = "requester" THEN "responder" ELSE "requester"

\* the lookup by key whatever the state of the record
retrieve_by_invitation_key_AnyState(a, key, my_role) ==
    { i \in DOMAIN conns[a] :
        /\ conns[a][i].invitation_key = key
        /\ conns[a][i].their_role = Flip(my_role) }

\* Conn23Record.retrieve_by_invitation_key: the invitation record of that key
retrieve_by_invitation_key(a, key, my_role) ==
    { i \in DOMAIN conns[a] :
        /\ conns[a][i].invitation_key = key
        /\ conns[a][i].state = "invitation"
        /\ conns[a][i].their_role = Flip(my_role) }

\* Conn23Record.retrieve_by_request_id
retrieve_by_request_id(a, rid) ==
    { i \in DOMAIN conns[a] : conns[a][i].request_id = rid }

\* Conn23Record.retrieve_by_did: tags their_did / my_did when given, role when given
retrieve_by_did(a, their_did, my_did, my_role) ==
    { i \in DOMAIN conns[a] :
        /\ their_did # 0 => conns[a][i].their_did = their_did
        /\ my_did # 0 => conns[a][i].my_did = my_did
        /\ my_role # "none" => conns[a][i].their_role = Flip(my_role) }

\* a single-result search: "one", "none" (StorageNotFoundError) or "dup" (StorageDuplicateError)
Fetch(S) == IF S = {} THEN "none" ELSE IF Cardinality(S) = 1 THEN "one" ELSE "dup"
TheOne(S) == CHOOSE i \in S : TRUE

---------------------------------------------------------------------------
(* DID documents *)

Range(s) == { s[i] : i \in DOMAIN s }

PrimaryKey(did, verkey) == [id |-> << "1", 0 >>, value |-> verkey, controller |-> did]

\* fetch_did_document: the did_doc records tagged with the DID
fetch_did_document(a, did) == { i \in DOMAIN didDocs[a] : didDocs[a][i].did = did }

\* the routing key taken from a router's service: a public key of our document
RoutingKey(did, router_idx, value) ==
    [id |-> << "routing", router_idx >>, value |-> value, controller |-> did]

\* the while loop of create_did_document over the chain of inbound routers.  The loop has
\* no test of its own for a router met before: when the chain leads back to a router that
\* passed the checks, the same iterations repeat without end ("Diverges")
RECURSIVE RouterWalk(_, _, _, _, _, _, _)
RouterWalk(a, did, router_id, router_idx, routing_keys, svc_endpoints, visited) ==
    LET Stop(e) == [err |-> e, routing_keys |-> routing_keys,
                    svc_endpoints |-> svc_endpoints, visited |-> visited]
    IN  IF router_id = 0 THEN Stop("")
        ELSE IF router_id \in Range(visited) THEN Stop("Diverges")
        ELSE IF router_id \notin DOMAIN conns[a] THEN Stop("StorageError")
        ELSE LET router == conns[a][router_id]
                 found == fetch_did_document(a, router.their_did)
             IN  IF router.state # "completed" THEN Stop("RouterNotReady")
                 ELSE IF Fetch(found) # "one" THEN Stop("StorageError")
                 ELSE LET routing_doc == didDocs[a][TheOne(found)].value
                      IN  IF routing_doc.service = << >> THEN Stop("RouterMisconfigured")
                          ELSE LET service == routing_doc.service[1]
                               IN  IF service.endpoint = 0 \/ service.recip_keys = << >>
                                   THEN Stop("RouterMisconfigured")
                                   ELSE RouterWalk(a, did, router.inbound_connection_id,
                                            router_idx,
                                            Append(routing_keys,
                                                   RoutingKey(did, router_idx,
                                                              service.recip_keys[1])),
                                            << service.endpoint >>,
                                            Append(visited, router_id))

\* create_did_document: our DID Document, or the error that ended the router walk
create_did_document(a, did, verkey, inbound_connection_id, svc_endpoints) ==
    LET walk == RouterWalk(a, did, inbound_connection_id, 1, << >>, svc_endpoints, << >>)
        pk == PrimaryKey(did, verkey)
    IN  [err |-> walk.err,
         visited |-> walk.visited,
         doc |-> [did |-> did,
                  pubkey |-> << pk >>,
                  service |-> [i \in 1 .. Len(walk.svc_endpoints) |->
                                 [id |-> << "indy", i - 1 >>,
                                  recip_keys |-> << pk.value >>,
                                  routing_keys |-> walk.routing_keys,
                                  endpoint |-> walk.svc_endpoints[i]]]]]

\* DIDDoc.serialize: the JSON form of a document, the bytes an attachment signs
serialize(doc) ==
    [id |-> doc.did,
     publicKey |-> doc.pubkey,
     service |-> [i \in DOMAIN doc.service |->
                    [id |-> doc.service[i].id, type |-> "IndyAgent",
                     recipientKeys |-> doc.service[i].recip_keys,
                     routingKeys |-> doc.service[i].routing_keys,
                     serviceEndpoint |-> doc.service[i].endpoint]]]

\* DIDDoc.deserialize / DIDDoc.from_json: the document of a JSON form
deserialize(json) ==
    [did |-> json.id,
     pubkey |-> json.publicKey,
     service |-> [i \in DOMAIN json.service |->
                    [id |-> json.service[i].id,
                     recip_keys |-> json.service[i].recipientKeys,
                     routing_keys |-> json.service[i].routingKeys,
                     endpoint |-> json.service[i].serviceEndpoint]]]

\* AttachDecorator.from_indy_dict(doc.serialize()) followed by data.sign(verkey, wallet)
SignedAttach(doc, verkey) ==
    [has |-> TRUE, signed |-> serialize(doc), ok |-> TRUE, signer |-> verkey]

\* AgentMessage._thread_id: the thread of a message, its own id when it has no thread
thread_id(m) == IF m.thid # 0 THEN m.thid ELSE m.id

\* Conn23Request.serialize: the message as it goes over the wire
SerializeRequest(request) ==
    [type |-> "didexchange/1.0/request", id |-> request.id,
     thread |-> [thid |-> request.thid, pthid |-> request.pthid],
     label |-> request.label, did |-> request.did, attach |-> request.att]

\* Conn23Request.deserialize: the message of a wire form
DeserializeRequest(wire) ==
    [NoMsg EXCEPT !.kind = IF wire.type = "didexchange/1.0/request" THEN "request"
                           ELSE "none",
                  !.id = wire.id, !.thid = wire.thread.thid, !.pthid = wire.thread.pthid,
                  !.label = wire.label, !.did = wire.did, !.att = wire.attach]

\* my_endpoints of create_request / create_response when no my_endpoint is passed
MyEndpoints(a) == << Endpoint(a) >>


\* the verification of a signed attachment (AttachDecorator data.verify)
AttachVerifies(att) == att.ok

---------------------------------------------------------------------------
(* did_key records *)

\* the id of the next did_key storage record: one no row and no task refers to
UsedRids(a) ==
    { r.rid : r \in didKeys[a] }
        \cup UNION { Range(tasks[t].sd.todo) : t \in { u \in TaskIds : tasks[u].a = a } }
FreshRid(a) == CHOOSE n \in 1 .. Cardinality(UsedRids(a)) + 1 :
                   n \notin UsedRids(a) /\ \A m \in 1 .. n - 1 : m \in UsedRids(a)

\* the ids of a set of rows, in ascending order
RECURSIVE Sorted(_)
Sorted(S) == IF S = {} THEN << >>
             ELSE LET m == CHOOSE x \in S : \A y \in S : x <= y
                  IN  << m >> \o Sorted(S \ {m})

\* every key of the document indexed, whoever controls it
SelectOwn_All(keys, did) == keys

\* the keys store_did_document indexes: those whose controller is the document's DID
SelectOwn(keys, did) ==
    LET Test(k) == k.controller = did IN SelectSeq(keys, Test)
OwnKeys(doc) == SelectOwn(doc.pubkey, doc.did)

\* the search made on the tag of the DID instead of that of the key
find_did_for_key_ByDid(a, key) == { r \in didKeys[a] : r.did = key }

\* find_did_for_key: the did_key rows tagged with the key
find_did_for_key(a, key) == { r \in didKeys[a] : r.key = key }

---------------------------------------------------------------------------
(* Tasks *)

Snapshot(a) == [conns |-> conns[a], didDocs |-> didDocs[a], didKeys |-> didKeys[a],
                attReq |-> attReq[a], sent |-> sent, wallet |-> wallet[a]]

\* a receive_request in flight that has yet to add its connection record
MayCreate(task) ==
    /\ task.op = "receive_request"
    /\ \/ task.pc = "rr_multi"
       \/ ~task.found /\ task.pc \in {"sd_fetch", "sd_write", "sd_search", "sd_del",
                                      "sd_add", "rr_save"}
Creating(a) == Cardinality({ t \in TaskIds : tasks[t].a = a /\ MayCreate(tasks[t]) })

\* the caller starts operation op in the first free slot; only pairs of operations in run.overlap
\* run beside one another
CanStart(t, op) ==
    /\ tasks[t].op = "idle"
    /\ \A u \in 1 .. t - 1 : tasks[u].op # "idle"
    /\ op \in run.scope
    /\ \A u \in TaskIds :
          tasks[u].op = "idle" \/ {op, tasks[u].op} \in run.overlap

Begin(t, op, a) == [IdleTask EXCEPT !.op = op, !.a = a, !.pre = Snapshot(a)]

\* the operation raises e: the caller sees the error, and knows the message and receipt
\* it passed and the record the call had got hold of
Fail(task, e) == [IdleTask EXCEPT !.op = task.op, !.a = task.a, !.pre = task.pre,
                                  !.args = task.args,
                                  !.thid = task.msg.thid, !.key = task.key,
                                  !.conn = task.conn, !.found = task.found,
                                  !.msg = task.msg, !.rcpt = task.rcpt,
                                  !.pc = "done", !.res = e]
\* an error of create_did_document reaches the caller, but a router walk that repeats
\* itself never returns: the call stays where it is
Raise(task, e) == IF e = "Diverges" THEN [task EXCEPT !.pc = "dd_loop"] ELSE Fail(task, e)

\* the operation returns: the caller sees the record and the message it hands back, and
\* knows the message it passed
Finish(task) == [IdleTask EXCEPT !.op = task.op, !.a = task.a, !.pre = task.pre,
                                 !.args = task.args,
                                 !.thid = task.msg.thid, !.key = task.key,
                                 !.conn = task.conn, !.found = task.found,
                                 !.msg = task.msg, !.targets = task.targets,
                                 !.rcpt = task.rcpt, !.out = task.out,
                                 !.pc = "done", !.res = "ok"]

\* a DID mismatch in receive_request raised without its error_code
ErrorCode_Bare(res) ==
    CASE res = "UnmatchedResponse" -> "RESPONSE_NOT_ACCEPTED"
      [] res = "CompleteNotAccepted" -> "COMPLETE_NOT_ACCEPTED"
      [] OTHER -> ""

\* an unmatched Complete raised without its error_code
ErrorCode_CompleteBare(res) ==
    CASE res = "DIDMismatchRequest" -> "REQUEST_NOT_ACCEPTED"
      [] res = "UnmatchedResponse" -> "RESPONSE_NOT_ACCEPTED"
      [] OTHER -> ""

\* the error_code a Conn23ManagerError carries
ErrorCode(res) ==
    CASE res = "DIDMismatchRequest" -> "REQUEST_NOT_ACCEPTED"
      [] res = "UnmatchedResponse" -> "RESPONSE_NOT_ACCEPTED"
      [] res = "CompleteNotAccepted" -> "COMPLETE_NOT_ACCEPTED"
      [] OTHER -> ""


\* responder.send_reply(m, connection_id=cid)
Dispatch(a, m, cid) ==
    sent (+) SetToBag({[a |-> a, kind |-> m.kind, thid |-> m.thid, cid |-> cid, key |-> 0]})

\* RoutingManager.send_create_route(router_id, verkey, outbound_handler)
CreateRoute(a, router_id, verkey) ==
    sent (+) SetToBag({[a |-> a, kind |-> "create_route", thid |-> 0, cid |-> router_id,
                        key |-> verkey]})

---------------------------------------------------------------------------
(* create_invitation *)

\* invitations agent a has issued so far
Invited(a) == Cardinality({ m \in net : m.kind = "invitation" /\ m.from = a })

\* requests agent a has built so far
Requested(a) == Cardinality({ m \in net : m.kind = "request" /\ m.from = a })

\* the configuration winning over an explicit auto_accept=false
AcceptFor_ConfigWins(auto_accept, config) ==
    IF auto_accept = "true" \/ config THEN "auto" ELSE "manual"

AcceptFor(auto_accept, config) ==
    IF auto_accept = "true" \/ (auto_accept = "none" /\ config) THEN "auto" ELSE "manual"

\* the checks with the one on multi_use left out
PublicInvitationError_MultiAllowed(a, multi_use) ==
    IF ~settings.public_invites THEN "PublicInvitesDisabled"
    ELSE IF ~wallet[a].public THEN "NoPublicDid"
    ELSE ""

\* the checks of create_invitation with public=true, in the order made: "" when they pass
PublicInvitationError(a, multi_use) ==
    IF ~settings.public_invites THEN "PublicInvitesDisabled"
    ELSE IF ~wallet[a].public THEN "NoPublicDid"
    ELSE IF multi_use THEN "MultiUseWithPublic"
    ELSE ""

CreateInvitation(t, a, auto_accept, public, multi_use) ==
    /\ CanStart(t, "create_invitation")
    /\ a \in Inviters
    /\ Invited(a) < MaxInvites
    /\ LET task == [Begin(t, "create_invitation", a) EXCEPT
                      !.args = [NoArgs EXCEPT !.auto_accept = auto_accept,
                                              !.public = public,
                                              !.multi_use = multi_use]]
       IN  IF public
           THEN /\ UNCHANGED << wallet, conns, attReq, attInv >>
                /\ IF PublicInvitationError(a, multi_use) # ""
                   THEN /\ tasks' = [tasks EXCEPT ![t] =
                                       Fail(task, PublicInvitationError(a, multi_use))]
                        /\ UNCHANGED net
                   ELSE LET invitation == [NoMsg EXCEPT !.kind = "invitation", !.from = a,
                                              !.label = Label(a),
                                              !.dids = << PublicDid(a) >>]
                        IN  /\ tasks' = [tasks EXCEPT ![t] =
                                           Finish([task EXCEPT !.out = invitation])]
                            /\ net' = net \cup {invitation}
           ELSE LET verkey == SigningKey(a, wallet[a].nKey + 1)
                       invitation == [NoMsg EXCEPT !.kind = "invitation", !.from = a,
                                         !.label = Label(a),
                                         !.blocks = << [recipient_keys |->
                                                          << naked_to_did_key(verkey) >>,
                                                        service_endpoint |-> Endpoint(a)] >>]
                       connection == [NewConn EXCEPT
                                         !.invitation_key = verkey,
                                         !.their_role = "requester",
                                         !.state = "invitation",
                                         !.accept = AcceptFor(auto_accept,
                                                        settings.auto_accept_requests),
                                         !.invitation_mode =
                                             IF multi_use THEN "multi" ELSE "once"]
                IN  /\ wallet' = [wallet EXCEPT ![a].nKey = @ + 1]
                    /\ conns' = ConnsAfterSave(a, connection)
                    /\ attReq' = AttReqAfterSave(a, connection)
                    /\ attInv' = AttInvAfterAttach(a, connection, invitation)
                    /\ net' = net \cup {invitation}
                    /\ tasks' = [tasks EXCEPT ![t] =
                                   Finish([task EXCEPT !.out = invitation,
                                                       !.conn = Saved(a, connection),
                                                       !.found = TRUE])]
    /\ resolves' = EmptyBag
    /\ UNCHANGED << settings, didDocs, didKeys, cache, targetCache, locks, sent, fanout, run >>

---------------------------------------------------------------------------
(* create_request; receive_invitation *)

\* the body of create_request on an in-memory record: the request, the record as saved
\* and the wallet afterwards, or the error
CreateRequestBody(a, connection) ==
    LET fresh == connection.my_did = 0
        my_did == IF fresh THEN NextLocalDid(a) ELSE connection.my_did
        built == create_did_document(a, my_did, VK(my_did),
                                     connection.inbound_connection_id, MyEndpoints(a))
        id == ThreadId(a, wallet[a].nMsg + 1)
        request == [NoMsg EXCEPT !.kind = "request", !.from = a, !.id = id, !.thid = id,
                                 !.pthid = << built.doc.service[1].id >>,
                                 !.did = my_did, !.label = Label(a),
                                 !.att = SignedAttach(built.doc, VK(my_did))]
        w1 == IF fresh THEN WalletAfterCreateDid(a) ELSE wallet
    IN  [err |-> built.err,
         request |-> request,
         connection |-> [connection EXCEPT !.my_did = my_did, !.request_id = id,
                                           !.state = "request"],
         wallet |-> IF built.err = "" THEN [w1 EXCEPT ![a].nMsg = @ + 1] ELSE w1]

CreateRequest(t, a, cid) ==
    /\ CanStart(t, "create_request")
    /\ cid \in DOMAIN conns[a]
    /\ Requested(a) < MaxMsgs
    /\ LET task == [Begin(t, "create_request", a) EXCEPT !.conn = conns[a][cid], !.found = TRUE]
           body == CreateRequestBody(a, task.conn)
       IN  /\ wallet' = body.wallet
           /\ IF body.err # ""
              THEN /\ tasks' = [tasks EXCEPT ![t] = Raise(task, body.err)]
                   /\ UNCHANGED << conns, net >>
              ELSE /\ conns' = ConnsAfterSave(a, body.connection)
                   /\ net' = net \cup {body.request}
                   /\ tasks' = [tasks EXCEPT ![t] =
                                  Finish([task EXCEPT !.conn = body.connection,
                                                      !.out = body.request])]
    /\ resolves' = EmptyBag
    /\ UNCHANGED << settings, attReq, attInv, didDocs, didKeys, cache, targetCache, locks,
                    sent, fanout, run >>

\* the invitations a peer may hand over: the one it created, one with no service at all,
\* one whose service block lacks its recipient keys or its endpoint (beside the service
\* DIDs the invitation has, if any)
InvitationVariants == {"genuine", "noservice", "nokeys", "noendpoint"}
InvitationVariant(m, v) ==
    LET block == IF m.blocks # << >> THEN m.blocks[1]
                 ELSE [recipient_keys |-> << naked_to_did_key(VK(PublicDid(m.from))) >>,
                       service_endpoint |-> Endpoint(m.from)]
    IN  CASE v = "noservice" -> [m EXCEPT !.dids = << >>, !.blocks = << >>]
          [] v = "nokeys" -> [m EXCEPT !.blocks = << [block EXCEPT !.recipient_keys = << >>] >>]
          [] v = "noendpoint" -> [m EXCEPT !.blocks = << [block EXCEPT
                                                           !.service_endpoint = 0] >>]
          [] OTHER -> m

\* the validation of receive_invitation
InvitationWellFormed(invitation) ==
    \/ invitation.dids # << >>
    \/ /\ invitation.blocks # << >>
       /\ \A i \in DOMAIN invitation.blocks :
            /\ invitation.blocks[i].recipient_keys # << >>
            /\ invitation.blocks[i].service_endpoint # 0

ReceiveInvitation(t, a, invitation, auto_accept) ==
    /\ CanStart(t, "receive_invitation")
    /\ a \in Invitees
    /\ invitation.kind = "invitation"
    /\ Len(conns[a]) < MaxInvites
    /\ Requested(a) < MaxMsgs
    /\ LET task == [Begin(t, "receive_invitation", a) EXCEPT
                      !.msg = invitation,
                      !.args = [NoArgs EXCEPT !.auto_accept = auto_accept,
                                              !.invitation = invitation]]
       IN  IF ~InvitationWellFormed(invitation)
           THEN /\ tasks' = [tasks EXCEPT ![t] = Fail(task, "MalformedInvitation")]
                /\ UNCHANGED << wallet, conns, attReq, attInv, net, sent >>
           ELSE IF invitation.blocks # << >> /\ invitation.blocks[1].recipient_keys = << >>
           THEN \* service_blocks[0].recipient_keys[0] of a block without keys raises
                /\ tasks' = [tasks EXCEPT ![t] = Fail(task, "IndexError")]
                /\ UNCHANGED << wallet, conns, attReq, attInv, net, sent >>
           ELSE LET connection ==
                        [NewConn EXCEPT
                            !.invitation_key =
                                IF invitation.blocks # << >>
                                THEN invitation.blocks[1].recipient_keys[1] ELSE 0,
                            !.their_label = invitation.label,
                            !.their_role = "responder",
                            !.state = "invitation",
                            !.accept = AcceptFor(auto_accept, settings.auto_accept_invites)]
                    saved == Saved(a, connection)
                    body == CreateRequestBody(a, saved)
                IN  /\ attReq' = AttReqAfterSave(a, connection)
                    /\ attInv' = AttInvAfterAttach(a, connection, invitation)
                    /\ IF connection.accept = "auto"
                       THEN \* create_request, then the responder's send_reply and the
                            \* second save with state REQUEST
                            /\ wallet' = body.wallet
                            /\ IF body.err # ""
                               THEN /\ conns' = ConnsAfterSave(a, connection)
                                    /\ tasks' = [tasks EXCEPT ![t] =
                                                   Raise([task EXCEPT !.conn = saved,
                                                                      !.found = TRUE], body.err)]
                                    /\ UNCHANGED << net, sent >>
                               ELSE /\ conns' = [conns EXCEPT ![a] =
                                                   Append(@, body.connection)]
                                    /\ net' = net \cup {body.request}
                                    /\ sent' = IF settings.responder
                                               THEN Dispatch(a, body.request, saved.id)
                                               ELSE sent
                                    /\ tasks' = [tasks EXCEPT ![t] =
                                                   Finish([task EXCEPT
                                                             !.conn = body.connection,
                                                             !.found = TRUE,
                                                             !.out = body.request])]
                       ELSE /\ conns' = ConnsAfterSave(a, connection)
                            /\ tasks' = [tasks EXCEPT ![t] =
                                           Finish([task EXCEPT !.conn = saved,
                                                               !.found = TRUE])]
                            /\ UNCHANGED << wallet, net, sent >>
    /\ resolves' = EmptyBag
    /\ UNCHANGED << settings, didDocs, didKeys, cache, targetCache, locks, fanout, run >>

---------------------------------------------------------------------------
(* store_did_document, one storage await per step; it returns into the operation *)
(* that called it                                                               *)

AfterStore(op) ==
    CASE op = "receive_request" -> "rr_save"
      [] op = "accept_response" -> "ar_save"
      [] OTHER -> "done"

\* store_did_document returns: to the operation that called it, or to the caller
Stored(task) ==
    [task EXCEPT !.pc = AfterStore(task.op), !.sd = NoSd,
                 !.res = IF task.op = "store_did_document" THEN "ok" ELSE @]

\* where store_did_document goes once the did_doc record is written and the old key
\* rows are deleted: one add_key_for_did per own key
AfterDeletes(task) ==
    IF OwnKeys(task.doc) = << >>
    THEN Stored(task)
    ELSE [task EXCEPT !.pc = "sd_add", !.sd = [NoSd EXCEPT !.i = 1]]

\* the documents a caller stores: for each of two DIDs of the peer, the document with no
\* key, with its first key, with a rotated key, with both, and with its first key beside
\* a key that another DID controls
StoreDids == {LocalDid("bob", 1), LocalDid("bob", 2)}
RotatedKey(did) == [id |-> << "2", 0 >>, value |-> VK(did) + 200, controller |-> did]
ForeignKey == [id |-> << "3", 0 >>, value |-> VK(ForeignDid), controller |-> ForeignDid]
KeyLists(did) ==
    { << >>, << PrimaryKey(did, VK(did)) >>, << RotatedKey(did) >>,
      << PrimaryKey(did, VK(did)), RotatedKey(did) >>,
      << PrimaryKey(did, VK(did)), ForeignKey >> }
StoreDocs ==
    UNION { { [did |-> did, pubkey |-> ks, service |-> << >>] : ks \in KeyLists(did) } :
            did \in StoreDids }

\* a document of the second DID that lists, as a key of its own, the key of the first
SharedDocs ==
    { [did |-> LocalDid("bob", 2),
       pubkey |-> << PrimaryKey(LocalDid("bob", 2), VK(LocalDid("bob", 1))) >>,
       service |-> << >>] }

\* store_did_document(did_doc) called on its own
StoreDidDocumentCall(t, a, did_doc) ==
    /\ CanStart(t, "store_did_document")
    /\ did_doc \in SharedDocs => run.usurper
    /\ tasks' = [tasks EXCEPT ![t] = [Begin(t, "store_did_document", a) EXCEPT
                                        !.pc = "sd_fetch", !.doc = did_doc]]
    /\ resolves' = EmptyBag
    /\ UNCHANGED << settings, wallet, conns, attReq, attInv, didDocs, didKeys, cache,
                    targetCache, locks, net, sent, fanout, run >>

\* fetch_did_document(did_doc.did)
SdFetch(t) ==
    /\ tasks[t].pc = "sd_fetch"
    /\ LET task == tasks[t]
           found == fetch_did_document(task.a, task.doc.did)
       IN  tasks' = [tasks EXCEPT ![t] =
                       IF Fetch(found) = "dup" THEN Fail(task, "StorageError")
                       ELSE [task EXCEPT !.pc = "sd_write",
                                         !.sd = [NoSd EXCEPT !.rec =
                                                   IF Fetch(found) = "one"
                                                   THEN TheOne(found) ELSE 0]]]
    /\ UNCHANGED << settings, wallet, conns, attReq, attInv, didDocs, didKeys, cache,
                    targetCache, locks, net, sent, resolves, fanout, run >>

\* storage.add_record(record) or storage.update_record_value(record, ...)
SdWrite(t) ==
    /\ tasks[t].pc = "sd_write"
    /\ LET task == tasks[t]
           a == task.a
       IN  /\ didDocs' = IF task.sd.rec = 0
                         THEN [didDocs EXCEPT ![a] =
                                 Append(@, [did |-> task.doc.did, value |-> task.doc])]
                         ELSE [didDocs EXCEPT ![a][task.sd.rec].value = task.doc]
           /\ tasks' = [tasks EXCEPT ![t] = [task EXCEPT !.pc = "sd_search"]]
    /\ UNCHANGED << settings, wallet, conns, attReq, attInv, didKeys, cache, targetCache, locks,
                    net, sent, resolves, fanout, run >>

\* a search of the did_key records that finds nothing
KeyRowsFor_None(keys, did) == {}

\* remove_keys_for_did: the did_key records tagged with the DID
KeyRowsFor(keys, did) == { x \in keys : x.did = did }

\* remove_keys_for_did: the search for the DID's key rows
SdSearch(t) ==
    /\ tasks[t].pc = "sd_search"
    /\ LET task == tasks[t]
           rows == { r.rid : r \in KeyRowsFor(didKeys[task.a], task.doc.did) }
       IN  tasks' = [tasks EXCEPT ![t] =
                       IF rows = {} THEN AfterDeletes(task)
                       ELSE [task EXCEPT !.pc = "sd_del", !.sd.todo = Sorted(rows)]]
    /\ UNCHANGED << settings, wallet, conns, attReq, attInv, didDocs, didKeys, cache,
                    targetCache, locks, net, sent, resolves, fanout, run >>

\* remove_keys_for_did: storage.delete_record(record), which fails for a row already gone
SdDel(t) ==
    /\ tasks[t].pc = "sd_del"
    /\ LET task == tasks[t]
           a == task.a
           rid == Head(task.sd.todo)
       IN  IF \E r \in didKeys[a] : r.rid = rid
           THEN /\ didKeys' = [didKeys EXCEPT ![a] = { r \in @ : r.rid # rid }]
                /\ tasks' = [tasks EXCEPT ![t] =
                               IF Tail(task.sd.todo) = << >> THEN AfterDeletes(task)
                               ELSE [task EXCEPT !.sd.todo = Tail(@)]]
           ELSE /\ tasks' = [tasks EXCEPT ![t] = Fail([task EXCEPT !.sd = NoSd],
                                                      "StorageError")]
                /\ UNCHANGED didKeys
    /\ UNCHANGED << settings, wallet, conns, attReq, attInv, didDocs, cache, targetCache, locks,
                    net, sent, resolves, fanout, run >>

\* add_key_for_did(did_doc.did, key.value) for the next own key
SdAdd(t) ==
    /\ tasks[t].pc = "sd_add"
    /\ LET task == tasks[t]
           a == task.a
           keys == OwnKeys(task.doc)
       IN  /\ didKeys' = [didKeys EXCEPT ![a] =
                            @ \cup {[rid |-> FreshRid(a), did |-> task.doc.did,
                                     key |-> keys[task.sd.i].value]}]
           /\ tasks' = [tasks EXCEPT ![t] =
                          IF task.sd.i = Len(keys)
                          THEN Stored(task)
                          ELSE [task EXCEPT !.sd.i = @ + 1]]
    /\ UNCHANGED << settings, wallet, conns, attReq, attInv, didDocs, cache, targetCache, locks,
                    net, sent, resolves, fanout, run >>

StoreDidDocument(t) == SdFetch(t) \/ SdWrite(t) \/ SdSearch(t) \/ SdDel(t) \/ SdAdd(t)

\* the did_doc and did_key records a whole store_did_document(did_doc) leaves when nothing
\* else runs: the document added or rewritten, the DID's key rows deleted, one row added
\* per own key; a DID with more than one document makes the fetch raise
StoreResult(docs, keys, did_doc) ==
    LET found == { i \in DOMAIN docs : docs[i].did = did_doc.did }
        own == OwnKeys(did_doc)
        top == IF keys = {} THEN 0
               ELSE CHOOSE n \in { r.rid : r \in keys } : \A r \in keys : r.rid <= n
    IN  IF Cardinality(found) > 1
        THEN [docs |-> docs, keys |-> keys]
        ELSE [docs |-> IF found = {}
                       THEN Append(docs, [did |-> did_doc.did, value |-> did_doc])
                       ELSE [docs EXCEPT ![TheOne(found)].value = did_doc],
              keys |-> (keys \ KeyRowsFor(keys, did_doc.did))
                          \cup { [rid |-> top + i, did |-> did_doc.did, key |-> own[i].value] :
                                   i \in DOMAIN own }]

---------------------------------------------------------------------------
(* receive_request *)

\* what a peer, or something between the peer and us, may have made of a message; a
\* usurping one carries a document of the same DID with another key, its services
\* addressed to that key, signed by a key of the sender's own
Variants == {"genuine", "tampered", "mismatch", "noattach", "usurping"}
Usurping(doc) ==
    [doc EXCEPT !.pubkey = << RotatedKey(doc.did) >>,
                !.service = [i \in DOMAIN doc.service |->
                               [doc.service[i] EXCEPT
                                  !.recip_keys = << RotatedKey(doc.did).value >>]]]
ResponseVariants == Variants \cup {"unthreaded"}
Variant(m, v) ==
    CASE v = "tampered" -> [m EXCEPT !.att.ok = FALSE]
      [] v = "unthreaded" -> [m EXCEPT !.thid = 0, !.pthid = << >>]
      [] v = "mismatch" -> [m EXCEPT !.did = ForeignDid]
      [] v = "noattach" -> [m EXCEPT !.att = NoAtt]
      [] v = "usurping" ->
            [m EXCEPT !.att = SignedAttach(Usurping(deserialize(m.att.signed)),
                                           VK(ForeignDid))]
      [] OTHER -> m

\* the keys a request to agent a can be addressed to: an invitation key of one of its
\* records, or the verkey of its public DID
RequestKeys(a) ==
    { conns[a][i].invitation_key : i \in DOMAIN conns[a] }
        \cup (IF wallet[a].public THEN {VK(PublicDid(a))} ELSE {})

\* the receipt of a message to recipient verkey rv, as resolve_inbound_connection
\* annotates it from the wallet
RecipientReceipt(a, sv, rv) ==
    LET did == get_local_did_for_verkey(a, rv)
    IN  [NoReceipt EXCEPT !.sender_verkey = sv, !.recipient_verkey = rv,
                          !.recipient_did = did,
                          !.recipient_did_public = (did # 0 /\ did = PublicDid(a))]

\* the checks without the signature verification
RequestError_Unverified(request) ==
    IF ~request.att.has THEN "MissingAttachment"
    ELSE IF request.did # deserialize(request.att.signed).did THEN "DIDMismatchRequest"
    ELSE ""

\* the checks with a verification that trusts no signature
RequestError_Distrusting(request) ==
    IF ~request.att.has THEN "MissingAttachment"
    ELSE IF AttachVerifies(request.att) THEN "SignatureInvalid"
    ELSE IF request.did # deserialize(request.att.signed).did THEN "DIDMismatchRequest"
    ELSE ""

\* the checks of receive_request on the attachment: "" when it passes
RequestError(request) ==
    IF ~request.att.has THEN "MissingAttachment"
    ELSE IF ~AttachVerifies(request.att) THEN "SignatureInvalid"
    ELSE IF request.did # deserialize(request.att.signed).did THEN "DIDMismatchRequest"
    ELSE ""

\* after the key is determined: the checks, then store_did_document
AfterKey(task) ==
    IF RequestError(task.msg) # ""
    THEN Fail(task, RequestError(task.msg))
    ELSE [task EXCEPT !.pc = "sd_fetch", !.doc = deserialize(task.msg.att.signed)]

\* a child that reuses the agent's first local DID instead of a fresh one
NewMultiConnection_SharedDid(a, connection, connection_key) ==
    [NewConn EXCEPT !.invitation_key = connection_key,
                    !.my_did = LocalDid(a, 1),
                    !.state = "request",
                    !.accept = connection.accept,
                    !.their_role = connection.their_role]

\* the child record of a multi-use invitation
NewMultiConnection(a, connection, connection_key) ==
    [NewConn EXCEPT !.invitation_key = connection_key,
                    !.my_did = NextLocalDid(a),
                    !.state = "request",
                    !.accept = connection.accept,
                    !.their_role = connection.their_role]

\* the record created for a request to our public DID
NewPublicConnection(a, request, connection_key) ==
    [NewConn EXCEPT !.invitation_key = connection_key,
                    !.my_did = NextLocalDid(a),
                    !.their_did = request.did,
                    !.their_label = request.label,
                    !.their_role = "requester",
                    !.state = "request",
                    !.accept = IF settings.auto_accept_requests THEN "auto" ELSE "manual"]

IsMultiTarget(a, rv) ==
    \E i \in DOMAIN conns[a] :
        /\ conns[a][i].invitation_key = rv
        /\ conns[a][i].invitation_mode = "multi"
        /\ conns[a][i].state = "invitation"
        /\ conns[a][i].their_role = "requester"

\* the call, up to the lookup of the invitation record
ReceiveRequest(t, a, request, v, rv) ==
    /\ CanStart(t, "receive_request")
    /\ request.kind = "request"
    /\ request.from = Peer(a)
    /\ rv \in RequestKeys(a)
    /\ v = "usurping" => run.usurper
    /\ Len(conns[a]) + Creating(a) < run.capacity
    /\ LET rcpt == RecipientReceipt(a, VK(request.did), rv)
           task == [Begin(t, "receive_request", a) EXCEPT !.msg = Variant(request, v),
                                                          !.rcpt = rcpt]
           found == retrieve_by_invitation_key(a, rv, "responder")
       IN  /\ tasks' = [tasks EXCEPT ![t] =
                IF rcpt.recipient_did_public
                THEN AfterKey([task EXCEPT !.key = VK(rcpt.recipient_did)])
                ELSE IF Fetch(found) = "none" THEN Fail(task, "InvitationNotFound")
                ELSE IF Fetch(found) = "dup" THEN Fail(task, "StorageError")
                ELSE LET connection == conns[a][TheOne(found)]
                         got == [task EXCEPT !.conn = connection, !.found = TRUE,
                                             !.key = connection.invitation_key]
                     IN  IF connection.invitation_mode = "multi"
                         THEN [got EXCEPT !.pc = "rr_multi"]
                         ELSE AfterKey(got)]
           /\ fanout' = IF IsMultiTarget(a, rv)
                        THEN fanout (+) SetToBag({<< a, rv >>}) ELSE fanout
    /\ resolves' = EmptyBag
    /\ UNCHANGED << settings, wallet, conns, attReq, attInv, didDocs, didKeys, cache,
                    targetCache, locks, net, sent, run >>

\* multi-use invitation: a local DID and the child record, saved
RRMulti(t) ==
    /\ tasks[t].pc = "rr_multi"
    /\ LET task == tasks[t]
           a == task.a
           new_connection == NewMultiConnection(a, task.conn, task.key)
       IN  /\ wallet' = WalletAfterCreateDid(a)
           /\ conns' = ConnsAfterSave(a, new_connection)
           /\ attReq' = AttReqAfterSave(a, new_connection)
           /\ attInv' = AttInvAfterSave(a, new_connection)
           /\ tasks' = [tasks EXCEPT ![t] = AfterKey([task EXCEPT
                                                        !.conn = Saved(a, new_connection)])]
    /\ UNCHANGED << settings, didDocs, didKeys, cache, targetCache, locks, net, sent, resolves,
                    fanout, run >>

\* after store_did_document: the record is updated, or created for a public DID
RRSave(t) ==
    /\ tasks[t].pc = "rr_save"
    /\ LET task == tasks[t]
           a == task.a
       IN  IF task.found
           THEN LET connection == [task.conn EXCEPT !.their_label = task.msg.label,
                                                    !.their_did = task.msg.did,
                                                    !.state = "request"]
                IN  /\ conns' = ConnsAfterSave(a, connection)
                    /\ tasks' = [tasks EXCEPT ![t] =
                                   [task EXCEPT !.conn = connection, !.pc = "rr_attach"]]
                    /\ UNCHANGED << wallet, attReq, attInv >>
           ELSE IF ~settings.public_invites
           THEN /\ tasks' = [tasks EXCEPT ![t] = Fail(task, "PublicInvitesDisabled")]
                /\ UNCHANGED << wallet, conns, attReq, attInv >>
           ELSE LET connection == NewPublicConnection(a, task.msg, task.key)
                IN  /\ wallet' = WalletAfterCreateDid(a)
                    /\ conns' = ConnsAfterSave(a, connection)
                    /\ attReq' = AttReqAfterSave(a, connection)
                    /\ attInv' = AttInvAfterSave(a, connection)
                    /\ tasks' = [tasks EXCEPT ![t] =
                                   [task EXCEPT !.conn = Saved(a, connection),
                                                !.found = TRUE, !.pc = "rr_attach"]]
    /\ UNCHANGED << settings, didDocs, didKeys, cache, targetCache, locks, net, sent, resolves,
                    fanout, run >>

\* connection.attach_request; with accept AUTO create_response follows
RRAttach(t) ==
    /\ tasks[t].pc = "rr_attach"
    /\ LET task == tasks[t]
       IN  /\ attReq' = [attReq EXCEPT ![task.a][task.conn.id] = task.msg]
           /\ UNCHANGED attInv
           /\ tasks' = [tasks EXCEPT ![t] =
                          IF task.conn.accept = "auto"
                          THEN [task EXCEPT !.pc = "cr_read"]
                          ELSE Finish(task)]
    /\ UNCHANGED << settings, wallet, conns, didDocs, didKeys, cache, targetCache, locks,
                    net, sent, resolves, fanout, run >>

\* responder.send_reply(response)
RRSend(t) ==
    /\ tasks[t].pc = "rr_send"
    /\ LET task == tasks[t]
       IN  /\ sent' = Dispatch(task.a, task.out, task.conn.id)
           /\ tasks' = [tasks EXCEPT ![t] = [task EXCEPT !.pc = "rr_save2"]]
    /\ UNCHANGED << settings, wallet, conns, attReq, attInv, didDocs, didKeys, cache,
                    targetCache, locks, net, resolves, fanout, run >>

\* the record left in state REQUEST once the response is sent
StateAfterResponseSent_Request == "request"

\* the state the record is saved with after the response is sent
StateAfterResponseSent == "response"

RRSave2(t) ==
    /\ tasks[t].pc = "rr_save2"
    /\ LET task == tasks[t]
           connection == [task.conn EXCEPT !.state = StateAfterResponseSent]
       IN  /\ conns' = ConnsAfterSave(task.a, connection)
           /\ tasks' = [tasks EXCEPT ![t] = Finish([task EXCEPT !.conn = connection])]
    /\ UNCHANGED << settings, wallet, attReq, attInv, didDocs, didKeys, cache, targetCache,
                    locks, net, sent, resolves, fanout, run >>

---------------------------------------------------------------------------
(* create_response, called by receive_request or on its own *)

Respondable_Any(state) == TRUE

\* the state create_response requires of the connection
Respondable(state) == state = "request"

CreateResponse(t, a, cid) ==
    /\ CanStart(t, "create_response")
    /\ cid \in DOMAIN conns[a]
    /\ LET task == [Begin(t, "create_response", a) EXCEPT !.conn = conns[a][cid],
                                                         !.found = TRUE]
       IN  tasks' = [tasks EXCEPT ![t] =
                       IF ~Respondable(task.conn.state) THEN Fail(task, "WrongState")
                       ELSE [task EXCEPT !.pc = "cr_read"]]
    /\ resolves' = EmptyBag
    /\ UNCHANGED << settings, wallet, conns, attReq, attInv, didDocs, didKeys, cache,
                    targetCache, locks, net, sent, fanout, run >>

\* retrieve_request, the local DID, create_did_document and the signed attachment
CRRead(t) ==
    /\ tasks[t].pc = "cr_read"
    /\ LET task == tasks[t]
           a == task.a
           request == attReq[a][task.conn.id]
           fresh == task.conn.my_did = 0
           my_did == IF fresh THEN NextLocalDid(a) ELSE task.conn.my_did
           built == create_did_document(a, my_did, VK(my_did),
                                        task.conn.inbound_connection_id, MyEndpoints(a))
           response == [NoMsg EXCEPT !.kind = "response", !.from = a,
                                     !.id = ThreadId(a, wallet[a].nMsg + 1),
                                     !.thid = thread_id(request), !.pthid = request.pthid,
                                     !.did = my_did,
                                     !.att = SignedAttach(built.doc, task.conn.invitation_key)]
       IN  IF request.kind = "none"
           THEN /\ tasks' = [tasks EXCEPT ![t] = Fail(task, "StorageError")]
                /\ UNCHANGED wallet
           ELSE /\ wallet' = LET w1 == IF fresh THEN WalletAfterCreateDid(a) ELSE wallet
                              IN  IF built.err # "" THEN w1
                                  ELSE [w1 EXCEPT ![a].nMsg = @ + 1]
                /\ tasks' = [tasks EXCEPT ![t] =
                               IF built.err # ""
                               THEN Raise([task EXCEPT !.conn.my_did = my_did], built.err)
                               ELSE [task EXCEPT !.conn.my_did = my_did, !.out = response,
                                                 !.pc = "cr_save"]]
    /\ UNCHANGED << settings, conns, attReq, attInv, didDocs, didKeys, cache, targetCache,
                    locks, net, sent, resolves, fanout, run >>

\* the record saved with state RESPONSE; the response goes back to the caller
CRSave(t) ==
    /\ tasks[t].pc = "cr_save"
    /\ LET task == tasks[t]
           connection == [task.conn EXCEPT !.state = "response"]
           saved == [task EXCEPT !.conn = connection]
       IN  /\ conns' = ConnsAfterSave(task.a, connection)
           /\ net' = net \cup {task.out}
           /\ tasks' = [tasks EXCEPT ![t] =
                          IF task.op = "receive_request" /\ settings.responder
                          THEN [saved EXCEPT !.pc = "rr_send"]
                          ELSE Finish(saved)]
    /\ UNCHANGED << settings, wallet, attReq, attInv, didDocs, didKeys, cache, targetCache,
                    locks, sent, resolves, fanout, run >>

---------------------------------------------------------------------------
(* accept_response *)

\* the receipt of a response as resolve_inbound_connection annotates it: the sender's
\* DID from the did_key index, the recipient's from the wallet
ResponseReceipt(a, sv, rv) ==
    LET rows == find_did_for_key(a, sv)
    IN  [RecipientReceipt(a, sv, rv) EXCEPT
            !.sender_did = IF Fetch(rows) = "one" THEN TheOne(rows).did ELSE 0]

\* the keys of agent a a response can be addressed to
ResponseKeys(a) ==
    { VK(conns[a][i].my_did) : i \in { j \in DOMAIN conns[a] : conns[a][j].my_did # 0 } }

\* the state check as the RFC implementation had it, with RESPONSE accepted too
AcceptableForResponse_Lenient(state) == state \in {"request", "response"}

\* the state accept_response requires of the connection
AcceptableForResponse(state) == state = "request"

\* the checks with the one for a connection found left out
ResponseError_FoundAssumed(found, connection, response) ==
    IF ~AcceptableForResponse(connection.state) THEN "WrongState"
    ELSE IF ~response.att.has THEN "MissingAttachment"
    ELSE IF ~AttachVerifies(response.att) THEN "SignatureInvalid"
    ELSE IF response.did # deserialize(response.att.signed).did THEN "DIDMismatchResponse"
    ELSE ""

\* the checks of accept_response once the lookups are over: "" when they pass
ResponseError(found, connection, response) ==
    IF ~found THEN "UnmatchedResponse"
    ELSE IF ~AcceptableForResponse(connection.state) THEN "WrongState"
    ELSE IF ~response.att.has THEN "MissingAttachment"
    ELSE IF ~AttachVerifies(response.att) THEN "SignatureInvalid"
    ELSE IF response.did # deserialize(response.att.signed).did THEN "DIDMismatchResponse"
    ELSE ""

AfterLookup(task) ==
    IF ResponseError(task.found, task.conn, task.msg) # ""
    THEN Fail(task, ResponseError(task.found, task.conn, task.msg))
    ELSE [task EXCEPT !.pc = "sd_fetch", !.doc = deserialize(task.msg.att.signed)]

\* the call, up to the lookup by thread id
AcceptResponse(t, a, response, v, rv) ==
    /\ CanStart(t, "accept_response")
    /\ response.kind = "response"
    /\ response.from = Peer(a)
    /\ rv \in ResponseKeys(a)
    /\ v = "usurping" => run.usurper
    /\ LET task == [Begin(t, "accept_response", a) EXCEPT
                       !.msg = Variant(response, v),
                       !.rcpt = ResponseReceipt(a, VK(response.did), rv)]
           found == IF task.msg.thid # 0 THEN retrieve_by_request_id(a, task.msg.thid)
                    ELSE {}
       IN  tasks' = [tasks EXCEPT ![t] =
                IF Fetch(found) = "dup" THEN Fail(task, "StorageError")
                ELSE IF Fetch(found) = "one"
                THEN AfterLookup([task EXCEPT !.conn = conns[a][TheOne(found)],
                                              !.found = TRUE])
                ELSE IF task.rcpt.sender_did # 0
                THEN [task EXCEPT !.pc = "ar_bydid"]
                ELSE AfterLookup(task)]
    /\ resolves' = EmptyBag
    /\ UNCHANGED << settings, wallet, conns, attReq, attInv, didDocs, didKeys, cache,
                    targetCache, locks, net, sent, fanout, run >>

\* the lookup by the DIDs of the receipt
ARByDid(t) ==
    /\ tasks[t].pc = "ar_bydid"
    /\ LET task == tasks[t]
           a == task.a
           found == retrieve_by_did(a, task.rcpt.sender_did, task.rcpt.recipient_did,
                                    "requester")
       IN  tasks' = [tasks EXCEPT ![t] =
                IF Fetch(found) = "dup" THEN Fail(task, "StorageError")
                ELSE IF Fetch(found) = "one"
                THEN AfterLookup([task EXCEPT !.conn = conns[a][TheOne(found)],
                                              !.found = TRUE])
                ELSE AfterLookup(task)]
    /\ UNCHANGED << settings, wallet, conns, attReq, attInv, didDocs, didKeys, cache,
                    targetCache, locks, net, sent, resolves, fanout, run >>

\* a Complete that starts a thread of its own
CompleteFor_OwnThread(a, response) ==
    [NoMsg EXCEPT !.kind = "complete", !.from = a, !.thid = ThreadId(a, 0)]

\* the Complete message after assign_thread_from(response)
CompleteFor(a, response) ==
    [NoMsg EXCEPT !.kind = "complete", !.from = a,
                  !.thid = thread_id(response),
                  !.pthid = IF response.thid # 0 THEN response.pthid ELSE << >>]

\* after store_did_document: their_did and state RESPONSE, saved
ARSave(t) ==
    /\ tasks[t].pc = "ar_save"
    /\ LET task == tasks[t]
           connection == [task.conn EXCEPT !.their_did = task.msg.did, !.state = "response"]
           saved == [task EXCEPT !.conn = connection, !.out = CompleteFor(task.a, task.msg)]
       IN  /\ conns' = ConnsAfterSave(task.a, connection)
           /\ tasks' = [tasks EXCEPT ![t] =
                          IF settings.responder THEN [saved EXCEPT !.pc = "ar_send"]
                          ELSE Finish(saved)]
    /\ UNCHANGED << settings, wallet, attReq, attInv, didDocs, didKeys, cache, targetCache,
                    locks, net, sent, resolves, fanout, run >>

\* responder.send_reply(complete)
ARSend(t) ==
    /\ tasks[t].pc = "ar_send"
    /\ LET task == tasks[t]
       IN  /\ sent' = Dispatch(task.a, task.out, task.conn.id)
           /\ net' = net \cup {task.out}
           /\ tasks' = [tasks EXCEPT ![t] = [task EXCEPT !.pc = "ar_save2"]]
    /\ UNCHANGED << settings, wallet, conns, attReq, attInv, didDocs, didKeys, cache,
                    targetCache, locks, resolves, fanout, run >>

\* the state the record is saved with after the Complete is sent
StateAfterCompleteSent == "response"

ARSave2(t) ==
    /\ tasks[t].pc = "ar_save2"
    /\ LET task == tasks[t]
           connection == [task.conn EXCEPT !.state = StateAfterCompleteSent]
       IN  /\ conns' = ConnsAfterSave(task.a, connection)
           /\ tasks' = [tasks EXCEPT ![t] = Finish([task EXCEPT !.conn = connection])]
    /\ UNCHANGED << settings, wallet, attReq, attInv, didDocs, didKeys, cache, targetCache,
                    locks, net, sent, resolves, fanout, run >>

---------------------------------------------------------------------------
(* accept_complete *)

\* the Complete messages the peer may deliver to agent a: those it dispatched, and one
\* for each thread a opened with a request of its own
Completes(a) ==
    { m \in net : m.kind = "complete" /\ m.from = Peer(a) }
        \cup { [NoMsg EXCEPT !.kind = "complete", !.from = Peer(a),
                             !.thid = conns[a][i].request_id] :
                 i \in { j \in DOMAIN conns[a] : conns[a][j].request_id # 0 } }

AcceptComplete(t, a, complete) ==
    /\ CanStart(t, "accept_complete")
    /\ complete \in Completes(a)
    /\ LET task == [Begin(t, "accept_complete", a) EXCEPT !.msg = complete]
           found == retrieve_by_request_id(a, complete.thid)
       IN  tasks' = [tasks EXCEPT ![t] =
                IF Fetch(found) = "none" THEN Fail(task, "CompleteNotAccepted")
                ELSE IF Fetch(found) = "dup" THEN Fail(task, "StorageError")
                ELSE [task EXCEPT !.conn = conns[a][TheOne(found)], !.found = TRUE,
                                  !.pc = "ac_save"]]
    /\ resolves' = EmptyBag
    /\ UNCHANGED << settings, wallet, conns, attReq, attInv, didDocs, didKeys, cache,
                    targetCache, locks, net, sent, fanout, run >>

ACSave(t) ==
    /\ tasks[t].pc = "ac_save"
    /\ LET task == tasks[t]
           connection == [task.conn EXCEPT !.state = "completed"]
       IN  /\ conns' = ConnsAfterSave(task.a, connection)
           /\ tasks' = [tasks EXCEPT ![t] = Finish([task EXCEPT !.conn = connection])]
    /\ UNCHANGED << settings, wallet, attReq, attInv, didDocs, didKeys, cache, targetCache,
                    locks, net, sent, resolves, fanout, run >>

---------------------------------------------------------------------------
(* find_inbound_connection, resolve_inbound_connection, find_connection *)

CacheKey(task) == << task.a, task.rcpt.sender_verkey, task.rcpt.recipient_verkey >>

CacheEntries(a, sv, rv) ==
    { e \in cache[a] : e.sender_verkey = sv /\ e.recipient_verkey = rv }

\* the verkeys an inbound message to agent a may carry: none, a key of one of the peer's
\* DIDs, and a key of one of a's DIDs or invitations
SenderKeys(a) == {0} \cup { VK(d) : d \in LocalDids(Peer(a)) }
RecipientKeys(a) ==
    {0} \cup { VK(d) : d \in LocalDids(a) }
        \cup { conns[a][i].invitation_key :
                 i \in { j \in DOMAIN conns[a] : conns[a][j].invitation_key # 0 } }

\* a cache whose entries are never seen
CacheHit_Never(a, sv, rv) == FALSE

\* whether a populated entry lets the call skip the resolver
CacheHit(a, sv, rv) == CacheEntries(a, sv, rv) # {}

Resolving(task) == resolves (+) SetToBag({CacheKey(task)})

\* the call: with both verkeys and a cache it goes for the cache entry, otherwise straight
\* to resolve_inbound_connection
FindInboundConnection(t, a, sv, rv) ==
    /\ CanStart(t, "find_inbound_connection")
    /\ sv \in SenderKeys(a)
    /\ rv \in RecipientKeys(a)
    /\ BagCardinality(resolves) < MaxResolves
    /\ BagToSet(resolves) \subseteq {<< a, sv, rv >>}
    /\ Cardinality(cache[a]) < MaxCached \/ CacheEntries(a, sv, rv) # {} \/ ~settings.cache
    /\ LET task == [Begin(t, "find_inbound_connection", a) EXCEPT
                       !.rcpt = [NoReceipt EXCEPT !.sender_verkey = sv,
                                                  !.recipient_verkey = rv]]
       IN  IF sv # 0 /\ rv # 0 /\ settings.cache
           THEN /\ tasks' = [tasks EXCEPT ![t] = [task EXCEPT !.pc = "fi_acquire"]]
                /\ UNCHANGED resolves
           ELSE /\ tasks' = [tasks EXCEPT ![t] = [task EXCEPT !.pc = "ri_sender"]]
                /\ resolves' = Resolving(task)
    /\ UNCHANGED << settings, wallet, conns, attReq, attInv, didDocs, didKeys, cache,
                    targetCache, locks, net, sent, fanout, run >>

\* cache.acquire(cache_key): waits for the entry's lock, then reads the entry
FIAcquire(t) ==
    /\ tasks[t].pc = "fi_acquire"
    /\ CacheKey(tasks[t]) \notin locks
    /\ LET task == tasks[t]
           a == task.a
           hit == CacheHit(a, task.rcpt.sender_verkey, task.rcpt.recipient_verkey)
           cached == CHOOSE e \in CacheEntries(a, task.rcpt.sender_verkey,
                                               task.rcpt.recipient_verkey) : TRUE
       IN  /\ locks' = locks \cup {CacheKey(task)}
           /\ IF hit
              THEN /\ tasks' = [tasks EXCEPT ![t] =
                                  [task EXCEPT !.held = TRUE, !.pc = "fi_load",
                                               !.key = cached.id,
                                               !.rcpt.sender_did = cached.sender_did,
                                               !.rcpt.recipient_did = cached.recipient_did,
                                               !.rcpt.recipient_did_public =
                                                   cached.recipient_did_public]]
                   /\ UNCHANGED resolves
              ELSE /\ tasks' = [tasks EXCEPT ![t] =
                                  [task EXCEPT !.held = TRUE, !.pc = "ri_sender"]]
                   /\ resolves' = Resolving(task)
    /\ UNCHANGED << settings, wallet, conns, attReq, attInv, didDocs, didKeys, cache,
                    targetCache, net, sent, fanout, run >>

\* cache hit: Conn23Record.retrieve_by_id(cached["id"]); the entry is released
FILoad(t) ==
    /\ tasks[t].pc = "fi_load"
    /\ LET task == tasks[t]
       IN  /\ tasks' = [tasks EXCEPT ![t] =
                          Finish([task EXCEPT !.conn = conns[task.a][task.key],
                                              !.found = TRUE, !.held = FALSE])]
           /\ locks' = locks \ {CacheKey(task)}
    /\ UNCHANGED << settings, wallet, conns, attReq, attInv, didDocs, didKeys, cache,
                    targetCache, net, sent, resolves, fanout, run >>

\* the entry find_inbound_connection stores after a resolution
EntryFor(task) ==
    [sender_verkey |-> task.rcpt.sender_verkey,
     recipient_verkey |-> task.rcpt.recipient_verkey,
     id |-> task.conn.id,
     sender_did |-> task.rcpt.sender_did,
     recipient_did |-> task.rcpt.recipient_did,
     recipient_did_public |-> task.rcpt.recipient_did_public]

\* what find_inbound_connection caches when the resolver returns under the lock
CacheAfterResolve(task) ==
    IF task.held /\ task.found
    THEN [cache EXCEPT ![task.a] = @ \cup {EntryFor(task)}]
    ELSE cache

\* resolve_inbound_connection has returned (or raised): the entry is set and released
EndResolve(task) == Finish([task EXCEPT !.held = FALSE])
EndFailed(task, e) == Fail([task EXCEPT !.held = FALSE], e)
LocksAfter(task) == IF task.held THEN locks \ {CacheKey(task)} ELSE locks

\* resolve_inbound_connection: find_did_for_key(sender_verkey) and the wallet's DID of
\* the recipient verkey
RISender(t) ==
    /\ tasks[t].pc = "ri_sender"
    /\ LET task == tasks[t]
           a == task.a
           rows == find_did_for_key(a, task.rcpt.sender_verkey)
           my_did == get_local_did_for_verkey(a, task.rcpt.recipient_verkey)
           annotated == [task EXCEPT
                            !.args.auto_complete = TRUE,
                            !.rcpt.sender_did =
                                IF task.rcpt.sender_verkey # 0 /\ Fetch(rows) = "one"
                                THEN TheOne(rows).did ELSE 0,
                            !.rcpt.recipient_did =
                                IF task.rcpt.recipient_verkey # 0 THEN my_did ELSE 0,
                            !.rcpt.recipient_did_public =
                                (task.rcpt.recipient_verkey # 0 /\ my_did # 0
                                    /\ my_did = PublicDid(a))]
       IN  IF task.rcpt.sender_verkey # 0 /\ Fetch(rows) = "dup"
           THEN /\ tasks' = [tasks EXCEPT ![t] = EndFailed(task, "StorageError")]
                /\ locks' = LocksAfter(task)
                /\ UNCHANGED cache
           ELSE IF annotated.rcpt.sender_did # 0
           THEN /\ tasks' = [tasks EXCEPT ![t] = [annotated EXCEPT !.pc = "fc_bydid"]]
                /\ UNCHANGED << locks, cache >>
           ELSE IF annotated.rcpt.recipient_verkey # 0
           THEN /\ tasks' = [tasks EXCEPT ![t] = [annotated EXCEPT !.pc = "fc_bykey"]]
                /\ UNCHANGED << locks, cache >>
           ELSE /\ tasks' = [tasks EXCEPT ![t] = EndResolve(annotated)]
                /\ locks' = LocksAfter(task)
                /\ cache' = CacheAfterResolve(annotated)
    /\ UNCHANGED << settings, wallet, conns, attReq, attInv, didDocs, didKeys,
                    targetCache, net, sent, resolves, fanout, run >>

\* the arguments find_connection can be called with for the records agent a has
TheirDids(a) == {0} \cup { conns[a][i].their_did : i \in DOMAIN conns[a] }
MyDids(a) == {0} \cup { conns[a][i].my_did : i \in DOMAIN conns[a] }

\* find_connection(their_did, my_did, my_verkey, auto_complete) called directly
FindConnection(t, a, their_did, my_did, my_verkey, auto_complete) ==
    /\ CanStart(t, "find_connection")
    /\ their_did \in TheirDids(a)
    /\ my_did \in MyDids(a)
    /\ my_verkey \in RecipientKeys(a)
    /\ LET task == [Begin(t, "find_connection", a) EXCEPT
                       !.args.auto_complete = auto_complete,
                       !.rcpt.sender_did = their_did,
                       !.rcpt.recipient_did = my_did,
                       !.rcpt.recipient_verkey = my_verkey]
       IN  tasks' = [tasks EXCEPT ![t] =
                IF their_did # 0 THEN [task EXCEPT !.pc = "fc_bydid"]
                ELSE IF my_verkey # 0 THEN [task EXCEPT !.pc = "fc_bykey"]
                ELSE Finish(task)]
    /\ resolves' = EmptyBag
    /\ UNCHANGED << settings, wallet, conns, attReq, attInv, didDocs, didKeys, cache,
                    targetCache, locks, net, sent, fanout, run >>

\* the state find_connection promotes a record from, were it REQUEST
PromotedFrom_Request == "request"

\* the state find_connection promotes a record from
PromotedFrom == "response"

\* find_connection: Conn23Record.retrieve_by_did(their_did, my_did)
FCByDid(t) ==
    /\ tasks[t].pc = "fc_bydid"
    /\ LET task == tasks[t]
           a == task.a
           found == retrieve_by_did(a, task.rcpt.sender_did, task.rcpt.recipient_did, "none")
           got == [task EXCEPT !.conn = conns[a][TheOne(found)], !.found = TRUE]
       IN  IF Fetch(found) = "dup"
           THEN /\ tasks' = [tasks EXCEPT ![t] = EndFailed(task, "StorageError")]
                /\ locks' = LocksAfter(task)
                /\ UNCHANGED cache
           ELSE IF /\ Fetch(found) = "one"
                   /\ got.conn.state = PromotedFrom
                   /\ task.args.auto_complete
           THEN /\ tasks' = [tasks EXCEPT ![t] = [got EXCEPT !.pc = "fc_save"]]
                /\ UNCHANGED << locks, cache >>
           ELSE IF Fetch(found) = "one"
           THEN /\ tasks' = [tasks EXCEPT ![t] = EndResolve(got)]
                /\ locks' = LocksAfter(task)
                /\ cache' = CacheAfterResolve(got)
           ELSE IF task.rcpt.recipient_verkey # 0
           THEN /\ tasks' = [tasks EXCEPT ![t] = [task EXCEPT !.pc = "fc_bykey"]]
                /\ UNCHANGED << locks, cache >>
           ELSE /\ tasks' = [tasks EXCEPT ![t] = EndResolve(task)]
                /\ locks' = LocksAfter(task)
                /\ cache' = CacheAfterResolve(task)
    /\ UNCHANGED << settings, wallet, conns, attReq, attInv, didDocs, didKeys,
                    targetCache, net, sent, resolves, fanout, run >>

\* find_connection: a connection in state RESPONSE is promoted to COMPLETED
FCSave(t) ==
    /\ tasks[t].pc = "fc_save"
    /\ LET task == tasks[t]
           connection == [task.conn EXCEPT !.state = "completed"]
           got == [task EXCEPT !.conn = connection]
       IN  /\ conns' = ConnsAfterSave(task.a, connection)
           /\ tasks' = [tasks EXCEPT ![t] = EndResolve(got)]
           /\ locks' = LocksAfter(task)
           /\ cache' = CacheAfterResolve(got)
    /\ UNCHANGED << settings, wallet, attReq, attInv, didDocs, didKeys,
                    targetCache, net, sent, resolves, fanout, run >>

\* find_connection: Conn23Record.retrieve_by_invitation_key(my_verkey, REQUESTER)
FCByKey(t) ==
    /\ tasks[t].pc = "fc_bykey"
    /\ LET task == tasks[t]
           a == task.a
           found == retrieve_by_invitation_key(a, task.rcpt.recipient_verkey, "requester")
           got == IF Fetch(found) = "one"
                  THEN [task EXCEPT !.conn = conns[a][TheOne(found)], !.found = TRUE]
                  ELSE task
       IN  /\ tasks' = [tasks EXCEPT ![t] = EndResolve(got)]
           /\ locks' = LocksAfter(task)
           /\ cache' = CacheAfterResolve(got)
    /\ UNCHANGED << settings, wallet, conns, attReq, attInv, didDocs, didKeys,
                    targetCache, net, sent, resolves, fanout, run >>

---------------------------------------------------------------------------
(* fetch_connection_targets *)

\* the ledger: ledger.get_endpoint_for_did(did) and ledger.get_key_for_did(did)
LedgerEndpoint(did) == did
LedgerKey(did) == VK(did)

ConnectionTarget(did, endpoint, label, recipient_keys, routing_keys, sender_key) ==
    [did |-> did, endpoint |-> endpoint, label |-> label, recipient_keys |-> recipient_keys,
     routing_keys |-> routing_keys, sender_key |-> sender_key]

\* the role of the peer for which the stored invitation is the source of the target
InvitationTargetRole == "requester"

\* the one target made from the invitation: from the ledger for a service DID, from the
\* service block otherwise
InvitationTargets(connection, invitation) ==
    << IF invitation.dids # << >>
       THEN ConnectionTarget(connection.their_did, LedgerEndpoint(invitation.dids[1]),
                             invitation.label, << LedgerKey(invitation.dids[1]) >>, << >>,
                             VK(connection.my_did))
       ELSE ConnectionTarget(connection.their_did, invitation.blocks[1].service_endpoint,
                             invitation.label, invitation.blocks[1].recipient_keys, << >>,
                             VK(connection.my_did)) >>

\* diddoc_connection_targets: one target per service of the document that has recipient keys
DidDocTargets(doc, sender_verkey, their_label) ==
    LET Has(svc) == svc.recip_keys # << >>
        svcs == SelectSeq(doc.service, Has)
    IN  [i \in DOMAIN svcs |->
           ConnectionTarget(doc.did, svcs[i].endpoint, their_label, svcs[i].recip_keys,
                            [j \in DOMAIN svcs[i].routing_keys |->
                               svcs[i].routing_keys[j].value],
                            sender_verkey)]

\* fetch_connection_targets(connection): a list of targets, None (found is FALSE), or
\* an error
fetch_connection_targets(a, connection) ==
    LET invitation == attInv[a][connection.id]
        docs == fetch_did_document(a, connection.their_did)
        None == [err |-> "", found |-> FALSE, targets |-> << >>]
        Raised(e) == [None EXCEPT !.err = e]
        Targets(ts) == [None EXCEPT !.found = TRUE, !.targets = ts]
    IN  IF connection.my_did = 0 THEN None
        ELSE IF /\ connection.state \in {"invitation", "request"}
                /\ connection.their_role = InvitationTargetRole
        THEN IF invitation.kind = "none" THEN Raised("StorageError")
             ELSE Targets(InvitationTargets(connection, invitation))
        ELSE IF connection.their_did = 0 THEN None
        ELSE IF Fetch(docs) # "one" THEN Raised("StorageError")
        ELSE IF didDocs[a][TheOne(docs)].value.service = << >> THEN Raised("NoServices")
        ELSE Targets(DidDocTargets(didDocs[a][TheOne(docs)].value, VK(connection.my_did),
                                   connection.their_label))

\* the populated entry of the key connection_target::connection_id
TargetEntries(a, connection_id) == { e \in targetCache[a] : e.id = connection_id }

\* entry.set_result(targets): an empty list is a result the next caller takes for no result
TargetCacheAfterSet(a, connection_id, targets) ==
    IF targets = << >> THEN targetCache
    ELSE [targetCache EXCEPT ![a] = (@ \ TargetEntries(a, connection_id))
                                       \cup {[id |-> connection_id, targets |-> targets]}]

\* get_connection_targets(connection = the record cid as storage has it)
GetConnectionTargets(t, a, cid) ==
    /\ CanStart(t, "get_connection_targets")
    /\ cid \in DOMAIN conns[a]
    /\ LET connection == conns[a][cid]
           task == [Begin(t, "get_connection_targets", a) EXCEPT !.conn = connection]
           hit == settings.cache /\ TargetEntries(a, cid) # {}
           fetched == fetch_connection_targets(a, connection)
       IN  IF hit
           THEN /\ tasks' = [tasks EXCEPT ![t] =
                               Finish([task EXCEPT !.found = TRUE,
                                          !.targets = TheOne(TargetEntries(a, cid)).targets])]
                /\ UNCHANGED targetCache
           ELSE IF fetched.err # ""
           THEN /\ tasks' = [tasks EXCEPT ![t] = Fail(task, fetched.err)]
                /\ UNCHANGED targetCache
           ELSE IF settings.cache /\ ~fetched.found
           THEN \* the rows of None cannot be serialized for the cache
                /\ tasks' = [tasks EXCEPT ![t] = Fail(task, "TypeError")]
                /\ UNCHANGED targetCache
           ELSE /\ tasks' = [tasks EXCEPT ![t] =
                               Finish([task EXCEPT !.found = fetched.found,
                                                   !.targets = fetched.targets])]
                /\ targetCache' = IF settings.cache
                                  THEN TargetCacheAfterSet(a, cid, fetched.targets)
                                  ELSE targetCache
    /\ resolves' = EmptyBag
    /\ UNCHANGED << settings, wallet, conns, attReq, attInv, didDocs, didKeys, cache, locks,
                    net, sent, fanout, run >>

---------------------------------------------------------------------------
(* establish_inbound *)

\* create-route requests agent a has sent so far
Routes(a) ==
    LET S == { s \in BagToSet(sent) : s.a = a /\ s.kind = "create_route" }
    IN  BagCardinality([ s \in S |-> sent[s] ])

\* Conn23Record.is_ready
IsReady(state) == state \in {"completed", "response"}

\* the checks with the one of the router's readiness left out
InboundError_Unready(a, inbound_connection_id) ==
    IF inbound_connection_id \notin DOMAIN conns[a] THEN "RouterNotFound" ELSE ""

\* the checks of establish_inbound on the router: "" when they pass
InboundError(a, inbound_connection_id) ==
    IF inbound_connection_id \notin DOMAIN conns[a] THEN "RouterNotFound"
    ELSE IF ~IsReady(conns[a][inbound_connection_id].state) THEN "RouterNotReady"
    ELSE ""

\* establish_inbound(connection, inbound_connection_id, outbound_handler) for the record
\* cid as storage has it; the router id may be one no record has
EstablishInbound(t, a, cid, inbound_connection_id) ==
    /\ CanStart(t, "establish_inbound")
    /\ cid \in DOMAIN conns[a]
    /\ inbound_connection_id \in 1 .. Len(conns[a]) + 1
    /\ Routes(a) < MaxRoutes
    /\ conns[a][cid].my_did = 0 => wallet[a].nDid < Len(conns[a]) + MaxRoutes
    /\ LET connection == conns[a][cid]
           fresh == connection.my_did = 0
           my_did == IF fresh THEN NextLocalDid(a) ELSE connection.my_did
           task == [Begin(t, "establish_inbound", a) EXCEPT
                      !.conn = [connection EXCEPT !.my_did = my_did],
                      !.found = TRUE, !.key = inbound_connection_id]
           saved == [task.conn EXCEPT !.inbound_connection_id = inbound_connection_id,
                                      !.routing_state = "request"]
       IN  /\ wallet' = IF fresh THEN WalletAfterCreateDid(a) ELSE wallet
           /\ IF InboundError(a, inbound_connection_id) # ""
              THEN /\ tasks' = [tasks EXCEPT ![t] =
                                  Fail(task, InboundError(a, inbound_connection_id))]
                   /\ UNCHANGED << conns, sent >>
              ELSE /\ sent' = CreateRoute(a, inbound_connection_id, VK(my_did))
                   /\ conns' = ConnsAfterSave(a, saved)
                   /\ tasks' = [tasks EXCEPT ![t] = Finish([task EXCEPT !.conn = saved])]
    /\ resolves' = EmptyBag
    /\ UNCHANGED << settings, attReq, attInv, didDocs, didKeys, cache, targetCache, locks,
                    net, fanout, run >>

---------------------------------------------------------------------------
(* Return to the caller *)

Return(t) ==
    /\ tasks[t].pc = "done"
    /\ tasks' = [tasks EXCEPT ![t] = IdleTask]
    /\ UNCHANGED << settings, wallet, conns, attReq, attInv, didDocs, didKeys, cache,
                    targetCache, locks, net, sent, resolves, fanout, run >>

---------------------------------------------------------------------------
(* Specifications *)

\* the configurations checked: everything on but the cache; manual acceptance with public
\* invitations disabled; a cache but no public DID and no responder; no public DID and
\* requests accepted by hand unless the invitation says otherwise
Auto ==
    [public_invites |-> TRUE, auto_accept_requests |-> TRUE, auto_accept_invites |-> TRUE,
     responder |-> TRUE, cache |-> FALSE, public |-> TRUE]
Manual ==
    [public_invites |-> FALSE, auto_accept_requests |-> FALSE, auto_accept_invites |-> FALSE,
     responder |-> TRUE, cache |-> FALSE, public |-> TRUE]
Cached ==
    [public_invites |-> TRUE, auto_accept_requests |-> TRUE, auto_accept_invites |-> TRUE,
     responder |-> FALSE, cache |-> TRUE, public |-> FALSE]
Remembering ==
    [public_invites |-> TRUE, auto_accept_requests |-> TRUE, auto_accept_invites |-> TRUE,
     responder |-> TRUE, cache |-> TRUE, public |-> TRUE]
Direct ==
    [public_invites |-> FALSE, auto_accept_requests |-> FALSE, auto_accept_invites |-> TRUE,
     responder |-> TRUE, cache |-> FALSE, public |-> FALSE]

Handshake == {"create_invitation", "receive_invitation", "create_request", "receive_request",
              "create_response", "accept_response", "accept_complete"}
Inviting == {"create_invitation", "receive_invitation", "receive_request"}
Inbound == Inviting \cup {"find_inbound_connection"}
Finding == Inviting \cup {"find_connection"}

Scenario(s, ops, beside, n) ==
    [settings |-> s, scope |-> ops, overlap |-> beside, capacity |-> n, routers |-> 0,
     faulty |-> "none", usurper |-> FALSE]

\* a run whose inviter has k mediators already: a COMPLETED connection to each, made from
\* the mediator's invitation, and the mediator's DID Document stored with its key
Mediated(sc, k) == [sc EXCEPT !.routers = k]
Mediators == 2
RouterDid(i) == 30 + i
RouterDoc(i) ==
    [did |-> RouterDid(i),
     pubkey |-> << PrimaryKey(RouterDid(i), VK(RouterDid(i))) >>,
     service |-> << [id |-> << "indy", 0 >>, recip_keys |-> << VK(RouterDid(i)) >>,
                     routing_keys |-> << >>, endpoint |-> RouterDid(i)] >>]
\* the documents a mediator may have signed and sent: without services, with a first
\* service lacking its endpoint or its recipient keys, or with a sound first service and a
\* second one lacking its recipient keys
RouterFaults == {"noservices", "noendpoint", "nokeys", "second"}
FaultyDoc(doc, fault) ==
    CASE fault = "noservices" -> [doc EXCEPT !.service = << >>]
      [] fault = "noendpoint" -> [doc EXCEPT !.service[1].endpoint = 0]
      [] fault = "nokeys" -> [doc EXCEPT !.service[1].recip_keys = << >>]
      [] fault = "second" ->
            [doc EXCEPT !.service = Append(@, [doc.service[1] EXCEPT
                                                  !.id = << "indy", 1 >>,
                                                  !.recip_keys = << >>])]
      [] OTHER -> doc
\* a run whose last mediator has sent such a document
Misconfigured(sc, fault) == [sc EXCEPT !.faulty = fault]
SeededDoc(sc, i) ==
    IF i = sc.routers THEN FaultyDoc(RouterDoc(i), sc.faulty) ELSE RouterDoc(i)

RouterConn(a, i) ==
    [NewConn EXCEPT !.id = i, !.my_did = LocalDid(a, i), !.their_did = RouterDid(i),
                    !.invitation_key = naked_to_did_key(VK(RouterDid(i))),
                    !.their_label = RouterDid(i), !.their_role = "responder",
                    !.state = "completed", !.accept = "auto",
                    !.request_id = ThreadId(a, i)]
Routing == {"create_invitation", "establish_inbound", "create_request",
            "get_connection_targets"}
Targeting == {"create_invitation", "receive_invitation", "get_connection_targets"}

Storing == {"store_did_document"}

\* a run in which the peer sends usurping messages too
Usurped(sc) == [sc EXCEPT !.usurper = TRUE]

\* the runs checked one operation at a time: the handshake with everything on, invitations
\* under manual acceptance, inbound lookups through the cache, and documents stored
Sequential ==
    { Scenario(Auto, Handshake, {}, MaxHandshakeConns),
      Scenario(Manual, Inviting, {}, MaxConns),
      Scenario(Cached, Inbound, {}, MaxHandshakeConns),
      Scenario(Manual, Storing, {}, MaxConns),
      Mediated(Scenario(Manual, Routing, {}, MaxConns), Mediators),
      Scenario(Auto, Targeting, {}, MaxHandshakeConns),
      Scenario(Remembering, Targeting, {}, MaxHandshakeConns),
      Scenario(Cached, Finding, {}, MaxHandshakeConns) }

\* a run starts under one of the scenarios S, with empty stores but for the mediators the
\* scenario gives the inviter
Seeded(a, k) == IF a \in Inviters THEN k ELSE 0
InitWith(S) ==
    \E sc \in S :
        /\ settings = sc.settings
        /\ run = [scope |-> sc.scope, overlap |-> sc.overlap, capacity |-> sc.capacity,
                  usurper |-> sc.usurper]
        /\ wallet = [a \in Agents |->
                        [nDid |-> Seeded(a, sc.routers), nKey |-> 0,
                         nMsg |-> Seeded(a, sc.routers),
                         public |-> (a \in Inviters /\ sc.settings.public)]]
        /\ conns = [a \in Agents |-> [i \in 1 .. Seeded(a, sc.routers) |-> RouterConn(a, i)]]
        /\ attReq = [a \in Agents |-> [i \in 1 .. Seeded(a, sc.routers) |-> NoMsg]]
        /\ attInv = [a \in Agents |-> [i \in 1 .. Seeded(a, sc.routers) |-> NoMsg]]
        /\ didDocs = [a \in Agents |->
                         [i \in 1 .. Seeded(a, sc.routers) |->
                            [did |-> RouterDid(i), value |-> SeededDoc(sc, i)]]]
        /\ didKeys = [a \in Agents |->
                         { [rid |-> i, did |-> RouterDid(i), key |-> VK(RouterDid(i))] :
                             i \in 1 .. Seeded(a, sc.routers) }]
        /\ cache = [a \in Agents |-> {}]
        /\ targetCache = [a \in Agents |-> {}]
        /\ locks = {}
        /\ net = {}
        /\ sent = EmptyBag
        /\ resolves = EmptyBag
        /\ fanout = EmptyBag
        /\ tasks = [t \in TaskIds |-> IdleTask]

Init == InitWith(Sequential)

Next ==
    \E t \in TaskIds :
        \/ \E a \in Agents, aa \in {"true", "false", "none"}, p \in BOOLEAN, m \in BOOLEAN :
              CreateInvitation(t, a, aa, p, m)
        \/ \E a \in Agents, inv \in net, aa \in {"true", "false", "none"} :
              \E v \in InvitationVariants :
                  ReceiveInvitation(t, a, InvitationVariant(inv, v), aa)
        \/ \E a \in Agents : \E cid \in DOMAIN conns[a] : CreateRequest(t, a, cid)
        \/ \E a \in Agents, req \in net, v \in Variants :
              \E rv \in RequestKeys(a) : ReceiveRequest(t, a, req, v, rv)
        \/ RRMulti(t) \/ RRSave(t) \/ RRAttach(t) \/ RRSend(t) \/ RRSave2(t)
        \/ \E a \in Agents : \E cid \in DOMAIN conns[a] : CreateResponse(t, a, cid)
        \/ CRRead(t) \/ CRSave(t)
        \/ \E a \in Inviters, d \in StoreDocs \cup SharedDocs : StoreDidDocumentCall(t, a, d)
        \/ StoreDidDocument(t)
        \/ \E a \in Agents, resp \in net, v \in ResponseVariants :
              \E rv \in ResponseKeys(a) : AcceptResponse(t, a, resp, v, rv)
        \/ ARByDid(t) \/ ARSave(t) \/ ARSend(t) \/ ARSave2(t)
        \/ \E a \in Agents : \E c \in Completes(a) : AcceptComplete(t, a, c)
        \/ ACSave(t)
        \/ \E a \in Agents : \E sv \in SenderKeys(a), rv \in RecipientKeys(a) :
              FindInboundConnection(t, a, sv, rv)
        \/ \E a \in Agents, auto_complete \in BOOLEAN :
              \E their_did \in TheirDids(a), my_did \in MyDids(a) :
                 \E my_verkey \in RecipientKeys(a) :
                    FindConnection(t, a, their_did, my_did, my_verkey, auto_complete)
        \/ FIAcquire(t) \/ FILoad(t) \/ RISender(t) \/ FCByDid(t) \/ FCSave(t) \/ FCByKey(t)
        \/ \E a \in Inviters : \E cid \in DOMAIN conns[a] :
              \E rid \in 1 .. Len(conns[a]) + 1 : EstablishInbound(t, a, cid, rid)
        \/ \E a \in Agents : \E cid \in DOMAIN conns[a] : GetConnectionTargets(t, a, cid)
        \/ Return(t)

Spec == Init /\ [][Next]_vars

\* two receive_request calls beside one another, on top of the sequential runs
FanOut == Sequential \cup {Scenario(Direct, Inviting, {{"receive_request"}}, MaxConns)}
FanOutSpec == InitWith(FanOut) /\ [][Next]_vars

\* inbound lookups beside one another
Lookups == Sequential \cup {Scenario(Cached, Inbound, {{"find_inbound_connection"}},
                                     MaxHandshakeConns)}
CacheSpec == InitWith(Lookups) /\ [][Next]_vars

\* accept_response beside itself
Accepts == Sequential \cup {Scenario(Direct, Inviting \cup {"accept_response"},
                                     {{"accept_response"}}, MaxHandshakeConns)}
AcceptSpec == InitWith(Accepts) /\ [][Next]_vars

\* accept_response beside an inbound lookup
Racing == {"accept_response", "find_inbound_connection"}
Race == Sequential \cup {Scenario(Direct, Inviting \cup Racing, {Racing}, MaxHandshakeConns)}
RaceSpec == InitWith(Race) /\ [][Next]_vars

---------------------------------------------------------------------------
(* Properties *)

RecordsOf(a) == { conns[a][i] : i \in DOMAIN conns[a] }
Returned(op) == { t \in TaskIds : tasks[t].op = op /\ tasks[t].pc = "done" }

\* the handshake over an ephemeral single-use invitation, run by its two owners only
OnceHandshake ==
    /\ \A a \in Agents : Len(conns[a]) = 1
    /\ conns["alice"][1].invitation_mode = "once"
    /\ conns["alice"][1].invitation_key # 0
    /\ Requested("alice") = 0

Mirrored(x, y) ==
    /\ x.state = "completed" /\ y.state = "completed"
    /\ x.my_did # 0 /\ x.my_did = y.their_did
    /\ y.my_did # 0 /\ y.my_did = x.their_did

\* C1: once the handshake over an ephemeral single-use invitation has run to its end (Bob's
\* accept_response has dispatched the Complete, Alice's accept_complete for that thread has
\* returned), accept_complete has succeeded and both records are COMPLETED with mirrored
\* DIDs.
C1_RoundTripConverges ==
    \A t \in Returned("accept_complete") :
        ( /\ OnceHandshake
          /\ tasks[t].a = "alice"
          /\ \E s \in BagToSet(sent) :
                s.a = "bob" /\ s.kind = "complete" /\ s.thid = tasks[t].thid )
        => /\ tasks[t].res = "ok"
           /\ Mirrored(conns["alice"][1], conns["bob"][1])

\* C2: once accept_response has dispatched the Complete through the responder and returned,
\* the requester's record is persisted with state COMPLETED.
C2_CompletedOnceCompleteSent ==
    \A t \in Returned("accept_response") :
        (tasks[t].res = "ok" /\ settings.responder)
        => conns[tasks[t].a][tasks[t].conn.id].state = "completed"

\* the children of the invitation record i of agent a
Children(a, i) ==
    { j \in DOMAIN conns[a] : j # i /\ conns[a][j].invitation_key = conns[a][i].invitation_key }
Cloning(a, k) ==
    { t \in TaskIds : tasks[t].a = a /\ tasks[t].pc = "rr_multi" /\ tasks[t].key = k }

\* C3: for the receive_request calls addressed to the key of a MULTI invitation record (and
\* no create_request applied to the agent's records), every call that has cloned has its own
\* child record: as many children as calls, with pairwise distinct my_did, the parent's
\* invitation_key, accept and their_role; and the parent is still in state INVITATION.
C3_FanOut ==
    \A a \in Inviters : \A i \in DOMAIN conns[a] :
        (conns[a][i].invitation_mode = "multi" /\ Requested(a) = 0)
        => /\ conns[a][i].state = "invitation"
           /\ conns[a][i].their_did = 0
           /\ Cardinality(Children(a, i)) + Cardinality(Cloning(a, conns[a][i].invitation_key))
                  = CopiesIn(<< a, conns[a][i].invitation_key >>, fanout)
           /\ \A j \in Children(a, i) :
                 /\ conns[a][j].my_did # 0
                 /\ conns[a][j].accept = conns[a][i].accept
                 /\ conns[a][j].their_role = conns[a][i].their_role
                 /\ \A k \in Children(a, i) :
                       j # k => conns[a][j].my_did # conns[a][k].my_did

\* two receive_request calls that ran beside one another have both returned, and the MULTI
\* invitation has two children
C3_Witness ==
    /\ \A t \in TaskIds : tasks[t].op = "receive_request" /\ tasks[t].pc = "done"
    /\ \E i \in DOMAIN conns["alice"] :
          /\ conns["alice"][i].invitation_mode = "multi"
          /\ Cardinality(Children("alice", i)) = 2

\* C4: every connection record whose invitation_mode is MULTI is in state INVITATION and has
\* no their_did.
C4_MultiStaysInvitation ==
    \A a \in Agents : \A c \in RecordsOf(a) :
        c.invitation_mode = "multi" => (c.state = "invitation" /\ c.their_did = 0)

\* whether the key of a returned receive_request was that of a MULTI invitation record
ToMulti(task) ==
    \E i \in DOMAIN task.pre.conns :
        /\ task.pre.conns[i].invitation_key = task.key
        /\ task.pre.conns[i].invitation_mode = "multi"

\* the records, DID Documents and keys of the agent are what they were when the call began
Untouched(task) ==
    /\ conns[task.a] = task.pre.conns
    /\ didDocs[task.a] = task.pre.didDocs
    /\ didKeys[task.a] = task.pre.didKeys

\* the same, but for the child record a request to a MULTI invitation leaves behind
UntouchedButChild(task) ==
    /\ didDocs[task.a] = task.pre.didDocs
    /\ didKeys[task.a] = task.pre.didKeys
    /\ \A i \in DOMAIN task.pre.conns : conns[task.a][i] = task.pre.conns[i]
    /\ IF ToMulti(task)
       THEN /\ Len(conns[task.a]) = Len(task.pre.conns) + 1
            /\ LET child == conns[task.a][Len(conns[task.a])]
               IN  /\ child.invitation_key = task.key
                   /\ child.state = "request"
                   /\ child.their_did = 0
       ELSE Len(conns[task.a]) = Len(task.pre.conns)

\* a receive_request past its checks on the attachment
Checked(t) ==
    /\ tasks[t].op = "receive_request"
    /\ tasks[t].pc \notin {"rr_multi", "done"}

\* C5 (as the claim has it): a receive_request that fails signature verification leaves the
\* connection records, the did_doc records and the did_key records as they were.
C5_NothingPersisted ==
    \A t \in Returned("receive_request") :
        tasks[t].res = "SignatureInvalid" => Untouched(tasks[t])

\* C5 (amended): a request whose attachment does not verify never gets past the checks, and
\* the failure writes no did_doc or did_key record and changes no existing connection
\* record; it leaves a new record only for a MULTI invitation, whose child was saved before
\* the verification.
C5_OnlyTheChildPersisted ==
    /\ \A t \in TaskIds : Checked(t) => tasks[t].msg.att.has /\ tasks[t].msg.att.ok
    /\ \A t \in Returned("receive_request") :
          tasks[t].res = "SignatureInvalid" => UntouchedButChild(tasks[t])

\* a tampered request to a MULTI invitation has failed, and its child record is there
C5_Witness ==
    \E t \in Returned("receive_request") :
        /\ tasks[t].res = "SignatureInvalid"
        /\ ToMulti(tasks[t])
        /\ Len(conns[tasks[t].a]) = Len(tasks[t].pre.conns) + 1

\* C6 (as the claim has it): a receive_request whose signed document has another DID than
\* the request fails with code REQUEST_NOT_ACCEPTED and no record is created or advanced.
C6_NoRecordOnMismatch ==
    \A t \in Returned("receive_request") :
        tasks[t].res = "DIDMismatchRequest"
        => /\ ErrorCode(tasks[t].res) = "REQUEST_NOT_ACCEPTED"
           /\ conns[tasks[t].a] = tasks[t].pre.conns

\* C6 (amended): the failure carries code REQUEST_NOT_ACCEPTED, advances no existing record
\* and stores nothing of the document; for ONCE invitations and the public DID no record is
\* created, for a MULTI invitation the child saved before the check remains.
C6_MismatchRejected ==
    \A t \in Returned("receive_request") :
        tasks[t].res = "DIDMismatchRequest"
        => /\ ErrorCode(tasks[t].res) = "REQUEST_NOT_ACCEPTED"
           /\ UntouchedButChild(tasks[t])

\* a mismatching request to a ONCE invitation or to the public DID has failed
C6_Witness ==
    \E t \in Returned("receive_request") :
        /\ tasks[t].res = "DIDMismatchRequest"
        /\ ~ToMulti(tasks[t])
        /\ conns[tasks[t].a] # << >>

\* an accept_response past its lookups and checks
Accepting(t) ==
    /\ tasks[t].op = "accept_response"
    /\ tasks[t].pc \in {"sd_fetch", "sd_write", "sd_search", "sd_del", "sd_add", "ar_save"}

\* C7: accept_response on a record whose state is not REQUEST goes no further than the
\* check: it fails, and the record, the did_doc and did_key records and the messages
\* dispatched are what they were.
C7_WrongStateRejected ==
    /\ \A t \in TaskIds : Accepting(t) => tasks[t].conn.state = "request"
    /\ \A t \in Returned("accept_response") :
          tasks[t].res = "WrongState"
          => /\ Untouched(tasks[t])
             /\ sent = tasks[t].pre.sent

\* an accept_response for a record that is already in RESPONSE has failed
C7_Witness ==
    \E t \in Returned("accept_response") :
        /\ tasks[t].res = "WrongState"
        /\ \E c \in RecordsOf(tasks[t].a) : c.request_id = tasks[t].thid /\ c.state = "response"

\* the cache keys with both verkeys, for which find_inbound_connection goes to the cache
Keyed == { k \in BagToSet(resolves) : k[2] # 0 /\ k[3] # 0 }

\* C8 (as the claim has it): with a cache, the calls carrying one pair of verkeys invoke
\* the resolver once, whether or not it finds a record.
C8_ResolvedOnce ==
    settings.cache => \A k \in Keyed : CopiesIn(k, resolves) <= 1

\* C8 (amended): with a cache, the resolver is invoked once for a pair of verkeys whose
\* entry gets populated, which is when the resolution finds a record; a pair resolved more
\* than once has no entry.
C8_ResolvedOncePerEntry ==
    settings.cache
    => \A k \in Keyed : CopiesIn(k, resolves) > 1 => CacheEntries(k[1], k[2], k[3]) = {}

\* two lookups with the same verkeys ran beside one another and found the record, with
\* one resolution
C8_Witness ==
    /\ settings.cache
    /\ \A t \in TaskIds : /\ tasks[t].op = "find_inbound_connection"
                           /\ tasks[t].pc = "done"
                           /\ tasks[t].found
                           /\ tasks[t].rcpt.sender_verkey # 0
                           /\ tasks[t].rcpt.sender_verkey = tasks[1].rcpt.sender_verkey
                           /\ tasks[t].rcpt.recipient_verkey = tasks[1].rcpt.recipient_verkey
                           /\ tasks[t].a = tasks[1].a
    /\ BagCardinality(resolves) = 1

\* C9: of the accept_response calls for one connection record at most one succeeds, and the
\* Complete message of a thread is dispatched at most once.
C9_OneAcceptWins ==
    /\ \A t, u \in Returned("accept_response") :
          (t # u /\ tasks[t].a = tasks[u].a /\ tasks[t].conn.id = tasks[u].conn.id)
          => ~(tasks[t].res = "ok" /\ tasks[u].res = "ok")
    /\ \A s \in BagToSet(sent) : s.kind = "complete" => CopiesIn(s, sent) <= 1

\* C10: no step of receive_request, create_response, accept_response, accept_complete or
\* find_connection (any step but a call of create_request) moves the persisted state of a
\* connection record backward in the order INVITATION < REQUEST < RESPONSE < COMPLETED.
C10_Monotonic ==
    [][ (\A t \in TaskIds : tasks'[t].op # "create_request")
        => \A a \in Agents : \A i \in DOMAIN conns[a] :
             StateRank(conns'[a][i].state) >= StateRank(conns[a][i].state) ]_vars

\* the callers also build a request for a record whose exchange an inbound message has
\* already completed
Reopening == Sequential \cup {Scenario(Cached, Inbound \cup {"create_request"}, {},
                                       MaxHandshakeConns)}
TerminalSpec == InitWith(Reopening) /\ [][Next]_vars

\* C11: a connection record persisted in state COMPLETED stays in state COMPLETED, whatever
\* operation of the manager saves it next.
C11_CompletedIsTerminal ==
    [][ \A a \in Agents : \A i \in DOMAIN conns[a] :
          conns[a][i].state = "completed" => conns'[a][i].state = "completed" ]_vars

\* the records of a store by content, each with the number of records that carry it
\* (storage record ids are minted anew for every record added)
DocBag(docs) ==
    [ d \in Range(docs) |-> Cardinality({ i \in DOMAIN docs : docs[i] = d }) ]
KeyBag(keys) ==
    [ k \in { [did |-> r.did, key |-> r.key] : r \in keys } |->
        Cardinality({ r \in keys : r.did = k.did /\ r.key = k.key }) ]
SameStore(x, y) == DocBag(x.docs) = DocBag(y.docs) /\ KeyBag(x.keys) = KeyBag(y.keys)
StoreOf(a) == [docs |-> didDocs[a], keys |-> didKeys[a]]

\* C12: a store_did_document(d) that has returned left what StoreResult computes from the
\* records it found, and from every store content reached, storing any document d twice
\* leaves the did_doc and did_key records that storing it once leaves.
C12_StoreIdempotent ==
    /\ \A t \in Returned("store_did_document") :
          tasks[t].res = "ok"
          => SameStore(StoreOf(tasks[t].a),
                       StoreResult(tasks[t].pre.didDocs, tasks[t].pre.didKeys, tasks[t].doc))
    /\ \A a \in Agents : \A d \in StoreDocs :
          LET once == StoreResult(didDocs[a], didKeys[a], d)
          IN  SameStore(StoreResult(once.docs, once.keys, d), once)

\* a document with keys of its own has been stored over an identical stored document, and
\* the records are what they were
C12_Witness ==
    \E t \in Returned("store_did_document") :
        /\ tasks[t].res = "ok"
        /\ OwnKeys(tasks[t].doc) # << >>
        /\ \E i \in DOMAIN tasks[t].pre.didDocs : tasks[t].pre.didDocs[i].value = tasks[t].doc
        /\ KeyRowsFor(tasks[t].pre.didKeys, tasks[t].doc.did) # {}
        /\ SameStore(StoreOf(tasks[t].a),
                     [docs |-> tasks[t].pre.didDocs, keys |-> tasks[t].pre.didKeys])

\* the tasks whose store_did_document has just completed: called on its own and returned,
\* or about to save the connection record in receive_request or accept_response
JustStored ==
    { t \in TaskIds :
        \/ tasks[t].op = "store_did_document" /\ tasks[t].pc = "done" /\ tasks[t].res = "ok"
        \/ tasks[t].pc \in {"rr_save", "ar_save"} /\ tasks[t].doc # NoDoc }

\* the values of the public keys of a document that its own DID controls
OwnValues(doc) ==
    { doc.pubkey[i].value : i \in { j \in DOMAIN doc.pubkey : doc.pubkey[j].controller = doc.did } }

\* C13: when store_did_document(d) has completed, the did_key records tagged with d.did
\* are one for each public key of d that d.did controls and no other, and a key the DID
\* had a record for before, and that d does not list, is no longer found.
C13_KeysAreThoseOfTheDocument ==
    \A t \in JustStored :
        LET a == tasks[t].a
            d == tasks[t].doc
            rows == KeyRowsFor(didKeys[a], d.did)
        IN  /\ { r.key : r \in rows } = OwnValues(d)
            /\ Cardinality(rows) = Cardinality(OwnValues(d))
            /\ \A old \in KeyRowsFor(tasks[t].pre.didKeys, d.did) :
                  old.key \notin OwnValues(d) => find_did_for_key(a, old.key) = {}

\* a document with a rotated key has been stored over the one with the first key: the
\* first key is not found, the rotated one is
C13_Witness ==
    \E t \in JustStored :
        /\ tasks[t].op = "store_did_document"
        /\ \E old \in KeyRowsFor(tasks[t].pre.didKeys, tasks[t].doc.did) :
              /\ old.key \notin OwnValues(tasks[t].doc)
              /\ find_did_for_key(tasks[t].a, old.key) = {}
        /\ \E k \in OwnValues(tasks[t].doc) : find_did_for_key(tasks[t].a, k) # {}

\* C14: an agent holds at most one did_doc record for a DID, and at most one did_key
\* record for a DID and a key, also when store_did_document calls for the same DID run
\* beside one another.
C14_OneDocumentPerDid ==
    \A a \in Agents :
        /\ \A i, j \in DOMAIN didDocs[a] : didDocs[a][i].did = didDocs[a][j].did => i = j
        /\ \A r, q \in didKeys[a] : (r.did = q.did /\ r.key = q.key) => r = q

\* C15: every persisted connection record in state REQUEST, RESPONSE or COMPLETED has
\* my_did set, and every persisted record in state RESPONSE or COMPLETED has their_did set.
C15_DidsSetByState ==
    \A a \in Agents : \A c \in RecordsOf(a) :
        /\ StateRank(c.state) >= StateRank("request") => c.my_did # 0
        /\ StateRank(c.state) >= StateRank("response") => c.their_did # 0

\* C16: when create_request has returned, the requester's record has the id of the request
\* as its request_id; when receive_request has returned, the responder's record has the
\* thread id of the request it received as its request_id.
C16_RequestIdSet ==
    /\ \A t \in Returned("create_request") :
          tasks[t].res = "ok"
          => conns[tasks[t].a][tasks[t].conn.id].request_id = tasks[t].out.id
    /\ \A t \in Returned("receive_request") :
          tasks[t].res = "ok"
          => conns[tasks[t].a][tasks[t].conn.id].request_id = tasks[t].thid

\* the keys of the ephemeral-key invitations agent a has created
EphemeralKeys(a) == { SigningKey(a, n) : n \in 1 .. wallet[a].nKey }

\* the keys the service blocks of the invitations issued so far advertise
AdvertisedKeys ==
    { m.blocks[1].recipient_keys[1] : m \in { x \in net : x.kind = "invitation"
                                                          /\ x.blocks # << >> } }

\* C17: a record that create_invitation made, a MULTI child, and a record that
\* receive_invitation made from service blocks carry the invitation's key; a record of a
\* public-DID flow (made by receive_invitation from service DIDs alone, or by
\* receive_request for a request to our public DID) carries no invitation_key.
C17_InvitationKeyOnlyIfEphemeral ==
    /\ \A t \in Returned("create_invitation") :
          (tasks[t].res = "ok" /\ tasks[t].found)
          => /\ tasks[t].conn.invitation_key \in EphemeralKeys(tasks[t].a)
             /\ conns[tasks[t].a][tasks[t].conn.id].invitation_key = tasks[t].conn.invitation_key
    /\ \A t \in Returned("receive_request") :
          (tasks[t].res = "ok" /\ ToMulti(tasks[t]))
          => conns[tasks[t].a][tasks[t].conn.id].invitation_key = tasks[t].key
    /\ \A a \in Inviters : \A c \in RecordsOf(a) :
          c.invitation_key # 0 => c.invitation_key \in EphemeralKeys(a)
    /\ \A a \in Invitees : \A c \in RecordsOf(a) :
          IF c.invitation_key # 0
          THEN c.invitation_key \in AdvertisedKeys
          ELSE \E m \in net : m.kind = "invitation" /\ m.blocks = << >> /\ m.dids # << >>

\* a create_response past its check of the state
Responding(t) ==
    /\ tasks[t].op = "create_response"
    /\ tasks[t].pc \in {"cr_read", "cr_save"}

PublicInvitations == { t \in Returned("create_invitation") : tasks[t].args.public }

\* C19: create_invitation with public=true returns no record and leaves the connection
\* records and the wallet's signing keys as they were; it fails when public_invites is
\* off, when the wallet has no public DID, or when multi_use is set, and otherwise returns
\* an invitation whose only service is the public DID.
C19_PublicInvitationMakesNoRecord ==
    \A t \in PublicInvitations :
        LET a == tasks[t].a
        IN  /\ ~tasks[t].found
            /\ conns[a] = tasks[t].pre.conns
            /\ attReq[a] = tasks[t].pre.attReq
            /\ wallet[a] = tasks[t].pre.wallet
            /\ ~settings.public_invites => tasks[t].res = "PublicInvitesDisabled"
            /\ ~wallet[a].public => tasks[t].res \in {"PublicInvitesDisabled", "NoPublicDid"}
            /\ tasks[t].args.multi_use => tasks[t].res # "ok"
            /\ (settings.public_invites /\ wallet[a].public /\ ~tasks[t].args.multi_use)
                  => /\ tasks[t].res = "ok"
                     /\ tasks[t].out.kind = "invitation"
                     /\ tasks[t].out.dids = << PublicDid(a) >>
                     /\ tasks[t].out.blocks = << >>

\* a public invitation has been returned
C19_Witness ==
    \E t \in PublicInvitations :
        tasks[t].res = "ok" /\ tasks[t].out.dids = << PublicDid(tasks[t].a) >>

\* the create_invitation calls with public=false that have returned
EphemeralInvitations == { t \in Returned("create_invitation") : ~tasks[t].args.public }

\* C20: create_invitation with public=false succeeds and adds exactly one connection
\* record, leaving the others as they were; the record has the newly created verkey as
\* invitation_key, which the invitation's service block advertises in did:key form,
\* their_role REQUESTER, state INVITATION, invitation_mode MULTI iff multi_use, and accept
\* AUTO iff auto_accept is true, or is None with debug.auto_accept_requests set.
C20_InvitationRecord ==
    \A t \in EphemeralInvitations :
        LET a == tasks[t].a
            before == tasks[t].pre.conns
            args == tasks[t].args
        IN  /\ tasks[t].res = "ok" /\ tasks[t].found
            /\ Len(conns[a]) = Len(before) + 1
            /\ \A i \in DOMAIN before : conns[a][i] = before[i]
            /\ LET r == conns[a][Len(conns[a])]
               IN  /\ r = tasks[t].conn
                   /\ r.invitation_key \in EphemeralKeys(a)
                   /\ \A i \in DOMAIN before : before[i].invitation_key # r.invitation_key
                   /\ Len(tasks[t].out.blocks) = 1
                   /\ tasks[t].out.blocks[1].recipient_keys
                         = << naked_to_did_key(r.invitation_key) >>
                   /\ tasks[t].out.dids = << >>
                   /\ r.their_role = "requester"
                   /\ r.state = "invitation"
                   /\ r.invitation_mode = "multi" <=> args.multi_use
                   /\ r.invitation_mode \in {"multi", "once"}
                   /\ r.accept = "auto" <=> \/ args.auto_accept = "true"
                                            \/ /\ args.auto_accept = "none"
                                               /\ settings.auto_accept_requests
                   /\ r.accept \in {"auto", "manual"}

\* an invitation created with an explicit auto_accept=false under a configuration that
\* accepts requests automatically has a record with accept MANUAL
C20_Witness ==
    \E t \in EphemeralInvitations :
        /\ tasks[t].args.auto_accept = "false"
        /\ settings.auto_accept_requests
        /\ tasks[t].conn.accept = "manual"
        /\ tasks[t].conn.invitation_mode = "multi"

\* what the claim asks of an invitation
Acceptable(inv) ==
    \/ inv.dids # << >>
    \/ /\ inv.blocks # << >>
       /\ \A i \in DOMAIN inv.blocks :
             inv.blocks[i].recipient_keys # << >> /\ inv.blocks[i].service_endpoint # 0

\* C21: receive_invitation succeeds exactly for an invitation that has service DIDs, or has
\* service blocks that all carry recipient keys and an endpoint; a call that fails has
\* persisted nothing; a call that succeeds has made a record with their_role RESPONDER
\* that is in state INVITATION when its accept is MANUAL.
C21_InvitationValidated ==
    \A t \in Returned("receive_invitation") :
        LET a == tasks[t].a
        IN  /\ tasks[t].res = "ok" <=> Acceptable(tasks[t].args.invitation)
            /\ tasks[t].res # "ok"
                  => /\ conns[a] = tasks[t].pre.conns
                     /\ attReq[a] = tasks[t].pre.attReq
                     /\ wallet[a] = tasks[t].pre.wallet
            /\ tasks[t].res = "ok"
                  => LET r == conns[a][tasks[t].conn.id]
                     IN  /\ r.their_role = "responder"
                         /\ r.accept = "manual" => r.state = "invitation"

\* the dispatches of a Response for record cid of agent a
ResponsesFor(bag, a, cid) ==
    LET S == { s \in BagToSet(bag) : s.a = a /\ s.kind = "response" /\ s.cid = cid }
    IN  BagCardinality([ s \in S |-> bag[s] ])

\* what every successful receive_request leaves: the request attached, their_did set, and
\* with accept MANUAL the record in state REQUEST and no Response dispatched
ReceivedRequest(t) ==
    LET a == tasks[t].a
        cid == tasks[t].conn.id
        r == conns[a][cid]
    IN  /\ attReq[a][cid] = tasks[t].msg
        /\ r.their_did = tasks[t].msg.did
        /\ r.accept = "manual"
              => /\ r.state = "request"
                 /\ ResponsesFor(sent, a, cid) = ResponsesFor(tasks[t].pre.sent, a, cid)

\* C22 (as the claim has it): a successful receive_request leaves the record in state
\* RESPONSE with exactly one Response dispatched when its accept is AUTO, in state REQUEST
\* with none dispatched when it is MANUAL, and in both cases the request attached and
\* their_did = request.did.
C22_ResponseDispatchedWhenAuto ==
    \A t \in Returned("receive_request") :
        tasks[t].res = "ok"
        => /\ ReceivedRequest(t)
           /\ conns[tasks[t].a][tasks[t].conn.id].accept = "auto"
                 => /\ conns[tasks[t].a][tasks[t].conn.id].state = "response"
                    /\ ResponsesFor(sent, tasks[t].a, tasks[t].conn.id)
                          = ResponsesFor(tasks[t].pre.sent, tasks[t].a, tasks[t].conn.id) + 1

\* C22 (amended): the same, but with accept AUTO the one Response is dispatched when a
\* responder is available; without a responder the record is in state RESPONSE and nothing
\* is dispatched.
C22_ResponseDispatchedIfResponder ==
    \A t \in Returned("receive_request") :
        tasks[t].res = "ok"
        => /\ ReceivedRequest(t)
           /\ conns[tasks[t].a][tasks[t].conn.id].accept = "auto"
                 => /\ conns[tasks[t].a][tasks[t].conn.id].state = "response"
                    /\ ResponsesFor(sent, tasks[t].a, tasks[t].conn.id)
                          = ResponsesFor(tasks[t].pre.sent, tasks[t].a, tasks[t].conn.id)
                               + (IF settings.responder THEN 1 ELSE 0)

\* a request to an AUTO record has been answered through the responder and the record is
\* in state RESPONSE with the request attached
C22_Witness ==
    \E t \in Returned("receive_request") :
        /\ tasks[t].res = "ok"
        /\ settings.responder
        /\ tasks[t].conn.accept = "auto"
        /\ conns[tasks[t].a][tasks[t].conn.id].state = "response"
        /\ attReq[tasks[t].a][tasks[t].conn.id].kind = "request"
        /\ ResponsesFor(sent, tasks[t].a, tasks[t].conn.id) = 1

\* the records, as they were when the call began, that the thread id of the response names
ByThread(task) ==
    IF task.msg.thid = 0 THEN {}
    ELSE { i \in DOMAIN task.pre.conns : task.pre.conns[i].request_id = task.msg.thid }

\* those the DIDs of the receipt name, when the receipt has a sender DID
ByDids(task) ==
    IF task.rcpt.sender_did = 0 THEN {}
    ELSE { i \in DOMAIN task.pre.conns :
             /\ task.pre.conns[i].their_did = task.rcpt.sender_did
             /\ task.pre.conns[i].my_did = task.rcpt.recipient_did
             /\ task.pre.conns[i].their_role = "responder" }

\* C23: accept_response takes the record whose request_id is the thread id of the response
\* when there is one; only otherwise the record with their_did = receipt.sender_did, my_did
\* = receipt.recipient_did and our role REQUESTER; when there is neither it fails with code
\* RESPONSE_NOT_ACCEPTED, and the connection, did_doc and did_key records are as before.
C23_ResponseLookup ==
    \A t \in Returned("accept_response") :
        LET task == tasks[t]
        IN  /\ ByThread(task) # {}
                  => task.found /\ task.conn.id \in ByThread(task)
            /\ (ByThread(task) = {} /\ ByDids(task) # {})
                  => task.found /\ task.conn.id \in ByDids(task)
            /\ (ByThread(task) = {} /\ ByDids(task) = {})
                  <=> task.res = "UnmatchedResponse"
            /\ task.res = "UnmatchedResponse"
                  => /\ ErrorCode(task.res) = "RESPONSE_NOT_ACCEPTED"
                     /\ ~task.found
                     /\ Untouched(task)

\* a response without a thread has been matched to the record by the DIDs of its receipt
C23_Witness ==
    \E t \in Returned("accept_response") :
        /\ ByThread(tasks[t]) = {}
        /\ ByDids(tasks[t]) # {}
        /\ tasks[t].found
        /\ tasks[t].conn.id \in ByDids(tasks[t])

\* the records, as they were when the call began, whose request_id is the thread id of the
\* Complete
Completing(task) ==
    { i \in DOMAIN task.pre.conns : task.pre.conns[i].request_id = task.msg.thid }

C25_RouterWalkEnds ==
    \A t \in TaskIds : tasks[t].pc # "dd_loop"

\* the routers reached from record id of the store cs, in the order of the links (at most
\* as many as the store has records)
RECURSIVE ChainFrom(_, _, _)
ChainFrom(cs, id, n) ==
    IF id = 0 \/ n = 0 \/ id \notin DOMAIN cs THEN << >>
    ELSE << id >> \o ChainFrom(cs, cs[id].inbound_connection_id, n - 1)

\* the first service of the DID Document stored for the peer of router id
RouterService(task, id) ==
    LET docs == task.pre.didDocs
        i == CHOOSE j \in DOMAIN docs : docs[j].did = task.pre.conns[id].their_did
    IN  docs[i].value.service[1]

\* the create_request calls that returned a request for a record with inbound routers
Routed ==
    { t \in Returned("create_request") :
        /\ tasks[t].res = "ok"
        /\ tasks[t].pre.conns[tasks[t].conn.id].inbound_connection_id # 0 }

\* C26: for a record behind a chain of k >= 1 COMPLETED routers, the document that
\* create_did_document builds has one service, with the endpoint of the last router of the
\* chain, the primary key as its only recipient key, and k routing keys in chain order,
\* the i-th with id routing-i and the first recipient key of the first service of the
\* i-th router's stored document as its value.
C26_RoutingKeysInChainOrder ==
    \A t \in Routed :
        LET task == tasks[t]
            cs == task.pre.conns
            chain == ChainFrom(cs, cs[task.conn.id].inbound_connection_id, Len(cs))
            doc == deserialize(task.out.att.signed)
        IN  /\ \A i \in DOMAIN chain : cs[chain[i]].state = "completed"
            /\ Len(doc.service) = 1
            /\ doc.service[1].endpoint = RouterService(task, chain[Len(chain)]).endpoint
            /\ doc.service[1].recip_keys = << VK(doc.did) >>
            /\ Len(doc.service[1].routing_keys) = Len(chain)
            /\ \A i \in DOMAIN chain :
                  /\ doc.service[1].routing_keys[i].value
                        = RouterService(task, chain[i]).recip_keys[1]
                  /\ doc.service[1].routing_keys[i].id = << "routing", i >>

\* the create-route requests in a bag of dispatches
CreateRoutes(bag) ==
    LET S == { s \in BagToSet(bag) : s.kind = "create_route" }
    IN  [ s \in S |-> bag[s] ]

\* C27: establish_inbound fails with RouterNotFound when no record has the router's id and
\* with RouterNotReady when the router is in a state before RESPONSE; a call that fails
\* leaves the connection records as they were and sends no create-route request; a call
\* that succeeds was given a router in state RESPONSE or COMPLETED, has persisted the
\* record with my_did set, inbound_connection_id the router's id and routing_state REQUEST
\* (nothing else of it, and no other record, changed), and has sent exactly one
\* create-route request, for that router and the verkey of the record's my_did.
C27_InboundEstablished ==
    \A t \in Returned("establish_inbound") :
        LET task == tasks[t]
            a == task.a
            cid == task.conn.id
            rid == task.key
            before == task.pre.conns
        IN  /\ rid \notin DOMAIN before => task.res = "RouterNotFound"
            /\ (rid \in DOMAIN before /\ before[rid].state \in {"init", "invitation", "request"})
                  => task.res = "RouterNotReady"
            /\ (rid \in DOMAIN before /\ before[rid].state = "completed") => task.res = "ok"
            /\ task.res # "ok"
                  => /\ conns[a] = before
                     /\ CreateRoutes(sent) = CreateRoutes(task.pre.sent)
            /\ task.res = "ok"
                  => /\ rid \in DOMAIN before
                     /\ before[rid].state \in {"response", "completed"}
                     /\ conns[a][cid].my_did # 0
                     /\ before[cid].my_did # 0 => conns[a][cid].my_did = before[cid].my_did
                     /\ conns[a] = [before EXCEPT
                                      ![cid] = [@ EXCEPT !.my_did = conns[a][cid].my_did,
                                                         !.inbound_connection_id = rid,
                                                         !.routing_state = "request"]]
                     /\ CreateRoutes(sent)
                           = CreateRoutes(task.pre.sent)
                               (+) SetToBag({[a |-> a, kind |-> "create_route", thid |-> 0,
                                              cid |-> rid, key |-> VK(conns[a][cid].my_did)]})

\* an invitation record without a DID of ours has been put behind a COMPLETED mediator: it
\* has a my_did now, and the one create-route request carries that DID's verkey
C27_Witness ==
    \E t \in Returned("establish_inbound") :
        /\ tasks[t].res = "ok"
        /\ tasks[t].pre.conns[tasks[t].conn.id].my_did = 0
        /\ conns[tasks[t].a][tasks[t].conn.id].inbound_connection_id = tasks[t].key
        /\ BagCardinality(CreateRoutes(sent)) = BagCardinality(CreateRoutes(tasks[t].pre.sent)) + 1

\* a returned get_connection_targets call on a record that receive_invitation made from an
\* invitation naming a public DID, the request not yet answered
TargetsOfPublicInvitation ==
    { t \in Returned("get_connection_targets") :
        /\ tasks[t].conn.their_role = "responder"
        /\ tasks[t].conn.state \in {"invitation", "request"}
        /\ attInv[tasks[t].a][tasks[t].conn.id].kind = "invitation"
        /\ attInv[tasks[t].a][tasks[t].conn.id].dids # << >> }

\* C28: for a record created by receive_invitation from an invitation whose service is a
\* public DID, get_connection_targets on the record in state INVITATION or REQUEST returns
\* one target, whose endpoint and recipient key are those the ledger has for that DID.
C28_PublicInvitationTarget ==
    \A t \in TargetsOfPublicInvitation :
        LET did == attInv[tasks[t].a][tasks[t].conn.id].dids[1]
        IN  /\ tasks[t].res = "ok"
            /\ tasks[t].found
            /\ Len(tasks[t].targets) = 1
            /\ tasks[t].targets[1].endpoint = LedgerEndpoint(did)
            /\ tasks[t].targets[1].recipient_keys = << LedgerKey(did) >>

\* the signed messages the agents have produced
Signed == { m \in net : m.kind \in {"request", "response"} }

\* the calls that have produced a signed message
Signing == { t \in TaskIds : /\ tasks[t].pc = "done"
                             /\ tasks[t].res = "ok"
                             /\ tasks[t].out.kind \in {"request", "response"} }

\* the calls that receive a signed message as its sender produced it
Verifying ==
    { t \in TaskIds : /\ tasks[t].op \in {"receive_request", "accept_response"}
                      /\ tasks[t].msg \in Signed }

Produced(kind) ==
    { t \in TaskIds : tasks[t].pc = "done" /\ tasks[t].res = "ok" /\ tasks[t].out.kind = kind }

\* C30: the Request create_request produces has its own message id for thread id, and that
\* id is the record's request_id; the Response create_response produces carries the thread
\* id of the stored Request; the Complete accept_response produces carries the thread id of
\* the Response, which is the request_id of the requester's record.
C30_ThreadCorrelation ==
    /\ \A t \in Produced("request") :
          /\ tasks[t].out.thid = tasks[t].out.id
          /\ tasks[t].out.id # 0
          /\ tasks[t].conn.request_id = tasks[t].out.id
          /\ conns[tasks[t].a][tasks[t].conn.id].request_id = tasks[t].out.id
    /\ \A t \in Produced("response") :
          /\ attReq[tasks[t].a][tasks[t].conn.id].kind = "request"
          /\ tasks[t].out.thid = thread_id(attReq[tasks[t].a][tasks[t].conn.id])
    /\ \A t \in Produced("complete") :
          /\ tasks[t].out.thid = thread_id(tasks[t].msg)
          /\ tasks[t].out.thid = tasks[t].conn.request_id

\* a Complete produced for the response to our request, on the thread the inviter stored
C30_Witness ==
    \E t \in Produced("complete") :
        /\ tasks[t].op = "accept_response"
        /\ tasks[t].out.thid # 0
        /\ tasks[t].out.thid = tasks[t].conn.request_id
        /\ \E i \in DOMAIN attReq[tasks[t].msg.from] :
              /\ attReq[tasks[t].msg.from][i].thid = tasks[t].out.thid
              /\ attReq[tasks[t].msg.from][i].id = tasks[t].out.thid

\* the calls inside find_connection
InFindConnection == { t \in TaskIds : tasks[t].pc \in {"fc_bydid", "fc_save", "fc_bykey"} }

\* the record the call got by (their_did, my_did)
FoundByDid(task) ==
    /\ task.rcpt.sender_did # 0
    /\ task.found
    /\ task.conn.id \in retrieve_by_did(task.a, task.rcpt.sender_did, task.rcpt.recipient_did,
                                        "none")

\* a step of find_connection writes no record, unless auto_complete is true and the
\* record found by (their_did, my_did) is in state RESPONSE, and then it only changes that
\* record's state to COMPLETED.
C31_FindConnectionWrites ==
    [][ \A t \in InFindConnection :
          tasks'[t] # tasks[t] =>
             \/ conns' = conns
             \/ /\ tasks[t].args.auto_complete
                /\ FoundByDid(tasks[t])
                /\ conns[tasks[t].a][tasks[t].conn.id].state = "response"
                /\ conns' = [conns EXCEPT ![tasks[t].a][tasks[t].conn.id].state = "completed"]
      ]_vars

\* the lookup by invitation key is tried only when my_verkey is set and the lookup by
\* DID found nothing; a record found by it is one we made as requester from that key.
C31_FallbackOnlyAfterMiss ==
    \A t \in TaskIds :
        /\ tasks[t].pc = "fc_bykey" =>
              /\ tasks[t].rcpt.recipient_verkey # 0
              /\ ~tasks[t].found
              /\ \/ tasks[t].rcpt.sender_did = 0
                 \/ retrieve_by_did(tasks[t].a, tasks[t].rcpt.sender_did,
                                    tasks[t].rcpt.recipient_did, "none") = {}
        /\ (/\ tasks[t].op = "find_connection"
            /\ tasks[t].pc = "done"
            /\ tasks[t].found
            /\ ~FoundByDid(tasks[t])) =>
              /\ tasks[t].conn.invitation_key = tasks[t].rcpt.recipient_verkey
              /\ tasks[t].conn.their_role = "responder"
              /\ tasks[t].conn = tasks[t].pre.conns[tasks[t].conn.id]

\* a direct call with auto_complete has promoted a record it found by DID; the same record
\* was in state RESPONSE before
C31_Witness ==
    \E t \in Returned("find_connection") :
        /\ tasks[t].args.auto_complete
        /\ FoundByDid(tasks[t])
        /\ tasks[t].pre.conns[tasks[t].conn.id].state = "response"
        /\ conns[tasks[t].a][tasks[t].conn.id].state = "completed"

\* C31: find_connection changes a record only by promoting it from RESPONSE to COMPLETED,
\* only with auto_complete and for the record found by (their_did, my_did); the lookup by
\* invitation key is tried only when that lookup found nothing and my_verkey is set.
C31_FindConnection == C31_FindConnectionWrites /\ []C31_FallbackOnlyAfterMiss

\* inbound lookups with room for a request received twice
Resends == Sequential \cup {Scenario(Cached, Inbound, {}, MaxConns)}
ResendSpec == InitWith(Resends) /\ [][Next]_vars

\* the returned inbound lookups whose sender verkey has no did_key entry, and those whose
\* recipient verkey is no key of the wallet
Inbounds == Returned("find_inbound_connection")
UnknownSender(t) ==
    /\ tasks[t].rcpt.sender_verkey # 0
    /\ { r \in tasks[t].pre.didKeys : r.key = tasks[t].rcpt.sender_verkey } = {}
UnknownRecipient(t) ==
    /\ tasks[t].rcpt.recipient_verkey # 0
    /\ get_local_did_for_verkey(tasks[t].a, tasks[t].rcpt.recipient_verkey) = 0

\* the record find_connection(their_did, my_did, my_verkey) finds: its id, 0 for none
Finds(a, their_did, my_did, my_verkey) ==
    LET by_did == IF their_did # 0 THEN retrieve_by_did(a, their_did, my_did, "none") ELSE {}
        by_key == IF my_verkey # 0
                  THEN retrieve_by_invitation_key(a, my_verkey, "requester") ELSE {}
    IN  IF by_did # {} THEN TheOne(by_did)
        ELSE IF Fetch(by_key) = "one" THEN TheOne(by_key)
        ELSE 0

\* C32: resolve_inbound_connection does not fail because of an unknown key: when the sender
\* verkey has no did_key entry, or the recipient verkey is not a key of the wallet, the call
\* returns without error, the receipt's sender_did (recipient_did) is left unset, and the
\* result is the record find_connection finds for the receipt, or none.
C32_UnknownKeysAreSoft ==
    \A t \in Inbounds :
        (UnknownSender(t) \/ UnknownRecipient(t)) =>
            /\ tasks[t].res = "ok"
            /\ UnknownSender(t) => tasks[t].rcpt.sender_did = 0
            /\ UnknownRecipient(t) => /\ tasks[t].rcpt.recipient_did = 0
                                      /\ ~tasks[t].rcpt.recipient_did_public
            /\ LET id == Finds(tasks[t].a, tasks[t].rcpt.sender_did,
                               tasks[t].rcpt.recipient_did, tasks[t].rcpt.recipient_verkey)
               IN  IF id = 0 THEN ~tasks[t].found
                   ELSE tasks[t].found /\ tasks[t].conn = conns[tasks[t].a][id]

\* the sequential runs, and routing through mediators of which the last is misconfigured
Misrouted ==
    Sequential \cup { Misconfigured(Mediated(Scenario(Manual, Routing, {}, MaxConns),
                                             Mediators), f) : f \in RouterFaults }
RouterSpec == InitWith(Misrouted) /\ [][Next]_vars

\* the document stored for the peer of router id, when the call began
RouterDocument(task, id) ==
    LET docs == task.pre.didDocs
        i == CHOOSE j \in DOMAIN docs : docs[j].did = task.pre.conns[id].their_did
    IN  docs[i].value

\* the two checks on a router: it is COMPLETED, and its document has services, each with
\* an endpoint and recipient keys
RouterPasses(task, id) ==
    /\ task.pre.conns[id].state = "completed"
    /\ RouterDocument(task, id).service # << >>
    /\ \A k \in DOMAIN RouterDocument(task, id).service :
          /\ RouterDocument(task, id).service[k].endpoint # 0
          /\ RouterDocument(task, id).service[k].recip_keys # << >>

\* the create_request calls that returned, for a record with inbound routers that exist
BehindRouters ==
    { t \in Returned("create_request") :
        LET cs == tasks[t].pre.conns
            chain == ChainFrom(cs, cs[tasks[t].conn.id].inbound_connection_id, Len(cs))
        IN  /\ chain # << >>
            /\ cs[chain[Len(chain)]].inbound_connection_id = 0 }

\* C33: create_did_document succeeds exactly when every router in the chain is COMPLETED
\* and has a stored document with services that all have an endpoint and recipient keys.
C33_EveryRouterChecked ==
    \A t \in BehindRouters :
        LET cs == tasks[t].pre.conns
            chain == ChainFrom(cs, cs[tasks[t].conn.id].inbound_connection_id, Len(cs))
        IN  tasks[t].res = "ok" <=> \A i \in DOMAIN chain : RouterPasses(tasks[t], chain[i])

\* inbound lookups through the cache, with responses created in between
Answering == Sequential \cup {Scenario(Cached, Inbound \cup {"create_response"}, {},
                                       MaxHandshakeConns)}
HitSpec == InitWith(Answering) /\ [][Next]_vars

\* the inbound lookups that returned what a populated cache entry gave them
Hits == { t \in Inbounds : tasks[t].key # 0 }

\* what resolve_inbound_connection would have given the call for the same receipt and the
\* same store: the receipt's annotations, the record found and the state it is left in
Resolved(task) ==
    LET a == task.a
        rows == { r \in task.pre.didKeys : r.key = task.rcpt.sender_verkey }
        sender_did == IF Fetch(rows) = "one" THEN TheOne(rows).did ELSE 0
        recipient_did == get_local_did_for_verkey(a, task.rcpt.recipient_verkey)
        id == Finds(a, sender_did, recipient_did, task.rcpt.recipient_verkey)
        by_did == sender_did # 0 /\ id \in retrieve_by_did(a, sender_did, recipient_did, "none")
    IN  [sender_did |-> sender_did,
         recipient_did |-> recipient_did,
         recipient_did_public |-> (recipient_did # 0 /\ recipient_did = PublicDid(a)),
         id |-> id,
         state |-> IF id = 0 THEN "none"
                   ELSE IF by_did /\ task.pre.conns[id].state = "response" THEN "completed"
                   ELSE task.pre.conns[id].state]

\* C34: a find_inbound_connection served from the cache returns the record, leaves the
\* receipt's sender_did, recipient_did and recipient_did_public, and leaves the record in the
\* persisted state, that a resolution of the same receipt on the same store would.
C34_HitEqualsMiss ==
    \A t \in Hits :
        LET miss == Resolved(tasks[t])
        IN  /\ tasks[t].res = "ok"
            /\ tasks[t].rcpt.sender_did = miss.sender_did
            /\ tasks[t].rcpt.recipient_did = miss.recipient_did
            /\ tasks[t].rcpt.recipient_did_public = miss.recipient_did_public
            /\ tasks[t].found /\ tasks[t].conn.id = miss.id
            /\ conns[tasks[t].a][tasks[t].conn.id].state = miss.state
            /\ tasks[t].conn.state = miss.state

\* the records of single-use invitations that a receive_request has already been taken for
Consumed(a) ==
    { i \in DOMAIN conns[a] : /\ conns[a][i].invitation_mode = "once"
                              /\ conns[a][i].their_role = "requester"
                              /\ conns[a][i].invitation_key # 0
                              /\ conns[a][i].their_did # 0 }

Takeovers == Sequential \cup { Usurped(Scenario(Manual, Inviting, {}, MaxConns)),
                                Usurped(Scenario(Manual, Storing, {}, MaxConns)) }
TakeoverSpec == InitWith(Takeovers) /\ [][Next]_vars

\* the documents stored for a DID, and the keys indexed for it
StoredDocuments(docs, did) ==
    { docs[i].value : i \in { j \in DOMAIN docs : docs[j].did = did } }
IndexedKeys(keys, did) == { r.key : r \in KeyRowsFor(keys, did) }

\* the records of a peer DID other than the record a call was about
OtherRecords(task) ==
    { i \in DOMAIN task.pre.conns : task.pre.conns[i].their_did # 0 /\ i # task.conn.id }

\* C36: a receive_request or accept_response that has returned has not replaced the stored
\* DID Document or the did_key entries of a DID that another record has as its their_did,
\* and find_did_for_key still maps that peer's keys to that DID.
C36_NoTakeover ==
    \A t \in Returned("receive_request") \cup Returned("accept_response") :
        \A i \in OtherRecords(tasks[t]) :
            LET a == tasks[t].a
                pre == tasks[t].pre
                did == pre.conns[i].their_did
            IN  /\ StoredDocuments(didDocs[a], did) = StoredDocuments(pre.didDocs, did)
                /\ IndexedKeys(didKeys[a], did) = IndexedKeys(pre.didKeys, did)
                /\ \A k \in IndexedKeys(pre.didKeys, did) :
                      { r.did : r \in find_did_for_key(a, k) } = {did}

\* C37: every verkey has at most one did_key entry, so that find_did_for_key finds a single
\* DID for it, also after a document of another DID listing that key is stored.
C37_OneEntryPerKey ==
    \A a \in Agents : \A r \in didKeys[a] :
        /\ Cardinality(find_did_for_key(a, r.key)) = 1
        /\ { q.did : q \in find_did_for_key(a, r.key) } = {r.did}

\* C38: a receive_request that failed because the request was addressed to our public DID
\* with public invitations disabled has persisted nothing of the request: the did_doc and
\* did_key records of request.did are those from before the call, and no connection record
\* was created.
C38_RefusedPublicRequestLeavesNothing ==
    \A t \in Returned("receive_request") :
        tasks[t].res = "PublicInvitesDisabled" =>
            LET a == tasks[t].a
                pre == tasks[t].pre
                did == tasks[t].msg.did
            IN  /\ StoredDocuments(didDocs[a], did) \subseteq StoredDocuments(pre.didDocs, did)
                /\ KeyRowsFor(didKeys[a], did) \subseteq KeyRowsFor(pre.didKeys, did)
                /\ Len(conns[a]) = Len(pre.conns)

\* targets asked for through the cache while requests, a usurping one too, come in
Retargeting ==
    Sequential \cup {Usurped(Scenario(Remembering, Inviting \cup {"get_connection_targets"},
                                      {}, MaxConns))}
StaleSpec == InitWith(Retargeting) /\ [][Next]_vars

\* C39: with a cache, the targets a get_connection_targets has returned for a connection
\* are those fetch_connection_targets computes from the record and the stored DID Document
\* as they are, whatever was cached for the connection earlier.
C39_TargetsAreCurrent ==
    \A t \in Returned("get_connection_targets") :
        (settings.cache /\ tasks[t].res = "ok") =>
            LET a == tasks[t].a
                fetched == fetch_connection_targets(a, conns[a][tasks[t].conn.id])
            IN  /\ fetched.err = ""
                /\ fetched.found
                /\ tasks[t].targets = fetched.targets

\* the handshake up to the invitee's accept_response, with inbound lookups on both sides
Exchanging == Inbound \cup {"accept_response"}
Traffic == Sequential \cup {Scenario(Auto, Exchanging, {}, MaxHandshakeConns)}
TrafficSpec == InitWith(Traffic) /\ [][Next]_vars

\* the records of an established connection a message from sender key sv to recipient key rv
\* belongs to: sv is a key of the stored document of their_did, rv the verkey of my_did
Established(task) ==
    { i \in DOMAIN task.pre.conns :
        LET rec == task.pre.conns[i]
        IN  /\ rec.state \in {"response", "completed"}
            /\ rec.my_did # 0 /\ rec.their_did # 0
            /\ task.rcpt.recipient_verkey = VK(rec.my_did)
            /\ \E doc \in StoredDocuments(task.pre.didDocs, rec.their_did) :
                  task.rcpt.sender_verkey \in OwnValues(doc) }

\* C40: after the handshake, a find_inbound_connection for a message from a key of the
\* peer's stored DID Document to the verkey of the record's my_did returns that record and
\* sets receipt.sender_did to its their_did and receipt.recipient_did to its my_did.
C40_InboundResolvesToConnection ==
    \A t \in Inbounds : \A i \in Established(tasks[t]) :
        /\ tasks[t].res = "ok"
        /\ tasks[t].found
        /\ tasks[t].conn.id = i
        /\ tasks[t].rcpt.sender_did = tasks[t].pre.conns[i].their_did
        /\ tasks[t].rcpt.recipient_did = tasks[t].pre.conns[i].my_did

\* such a lookup has returned on the side of the invitee, whose record accept_response
\* completed
C40_Witness ==
    \E t \in Inbounds :
        /\ tasks[t].a \in Invitees
        /\ Established(tasks[t]) # {}
        /\ tasks[t].found

====
